---- MODULE Spec2Model ----
\* Claude Engine (shanedynamo/equinu-ocha): the request pipeline, the budget
\* service and the API-key service over the shared pg connection pool.
EXTENDS Integers, Sequences, FiniteSets, TLC

\* ---------------------------------------------------------------- bounds
MaxCalls == 2
NumConns == 2
MaxTokens == 2
MaxFaults == 1
MaxReads == 1
MaxKeys == 3
MaxRawKeys == 3
MaxRotations == 1
MaxRequests == 1
MaxUsed == 12
MaxLimit == 10
MaxScore == 5
MaxText == 3
MaxRacers == 2
MaxSignals == 2
MaxFlights == 2
MaxMatches == 2

Users == {"ana", "bo"}
MockUser == "test@dynamo.works"
UserIds == Users \cup {MockUser}
Calls == 1..MaxCalls
Conns == 1..NumConns
\* token counts an upstream response reports: <<input_tokens, output_tokens>>
TokenCounts == {<<i, 1>> : i \in 1..MaxTokens}
KeyIds == 1..MaxKeys
\* the well-formed raw keys generateRawKey can draw
RawKeys == 1..MaxRawKeys
Rotations == 1..MaxRotations
Requests == 1..MaxRequests
\* user_email values, as <<local part, domain>>
Emails == {<<"ana", "dynamo.works">>, <<"bo", "dynamo.works">>}

VARIABLES
  config,        \* authMode, budgetEnforcement, databaseUrl (set or not), defaultModel
  req,           \* the requests to the two proxy surfaces, each at its stage
  auditLogs,     \* committed audit_logs rows
  conn,          \* pool connections: checkout state and open transaction
  faults,        \* store faults injected so far
  tokenUsage,    \* committed rows of table token_usage
  userBudgets,   \* committed rows of table user_budgets (current period)
  budgetCredits, \* calls whose counter increment is committed
  ru,            \* recordUsage calls
  lastBudget,    \* result of the most recent getUserBudget
  reads,         \* number of getUserBudget calls made
  apiKeys,       \* committed rows of table api_keys, by id
  keySeq,        \* last value of the BIGSERIAL api_keys.id
  rot,           \* rotateApiKey calls
  lastResp,      \* the most recent response of an admin route or of auth
  server         \* the HTTP server and the process: accepting, signalled, pool closed, exit

\* the process after app.listen: it accepts connections, no signal has come,
\* closePool has not run, the process has not exited
Listening == [accepting |-> TRUE, signals |-> 0, poolClosed |-> FALSE, exited |-> "no"]

usageVars == <<tokenUsage, userBudgets, budgetCredits, ru, lastBudget, reads>>
keyVars == <<apiKeys, keySeq, rot, lastResp>>
pipeVars == <<req, auditLogs>>
vars == <<config, server, conn, faults, usageVars, keyVars, pipeVars>>

\* ---------------------------------------------------------------- catalogs
DEFAULT_ROLE == "business"

Roles == {"admin", "engineer", "power_user", "business"}

OPUS == "claude-opus-4-20250514"
SONNET == "claude-sonnet-4-20250514"
HAIKU == "claude-haiku-4-20250514"

Models == {OPUS, SONNET, HAIKU}

MODEL_CATALOG ==
  [m \in Models |->
     CASE m = OPUS   -> [tier |-> 3]
       [] m = SONNET -> [tier |-> 2]
       [] m = HAIKU  -> [tier |-> 1]]

getModelTier(id) == IF id \in Models THEN MODEL_CATALOG[id].tier ELSE 0

\* ANTHROPIC_DEFAULT_MODEL: z.string().default("claude-sonnet-4-20250514")
DefaultModel == SONNET

\* monthlyTokenBudget of a role; 0 stands for null (unlimited)
ROLE_DEFINITIONS ==
  [r \in Roles |->
     CASE r = "admin"      -> [permittedModels |-> {OPUS, SONNET, HAIKU},
                               monthlyTokenBudget |-> 0]
       [] r = "engineer"   -> [permittedModels |-> {OPUS, SONNET, HAIKU},
                               monthlyTokenBudget |-> 500000]
       [] r = "power_user" -> [permittedModels |-> {SONNET, HAIKU},
                               monthlyTokenBudget |-> 350000]
       [] r = "business"   -> [permittedModels |-> {SONNET, HAIKU},
                               monthlyTokenBudget |-> 200000]]

getMonthlyBudget(role) ==
  IF role \in Roles THEN ROLE_DEFINITIONS[role].monthlyTokenBudget
  ELSE ROLE_DEFINITIONS[DEFAULT_ROLE].monthlyTokenBudget

\* ---------------------------------------------------------------- the pool
NoKey == [exists |-> FALSE, user_id |-> "", user_email |-> <<"", "">>, key_hash |-> <<"sha256", 0>>,
          role |-> "", is_active |-> FALSE, revoked_at |-> 0]

\* a connection outside a transaction block: no uncommitted ledger rows (rows),
\* counter increments (incs), api_keys row versions (kover, for the ids in
\* kdirty), audit_logs rows (audits) and no row locks (locks on user_budgets,
\* klocks on api_keys)
NoTx == [tx |-> FALSE, aborted |-> FALSE, rows |-> {}, incs |-> {}, locks |-> {},
         kover |-> [id \in KeyIds |-> NoKey], kdirty |-> {}, klocks |-> {}, audits |-> {}]

ClosedConn == [st |-> "closed"] @@ NoTx

\* pool.query / pool.connect hand out an idle client, and open a new one
\* (up to the pool's max) only when none is idle. Idle clients outside a
\* transaction block are interchangeable, and so are the clients not yet
\* opened: the least of each stands for all of them.
Available(c) ==
  \/ /\ conn[c].st = "idle"
     /\ conn[c].tx
  \/ /\ conn[c].st = "idle"
     /\ ~conn[c].tx
     /\ \A d \in 1..(c - 1) : ~(conn[d].st = "idle" /\ ~conn[d].tx)
  \/ /\ conn[c].st = "closed"
     /\ \A d \in Conns : conn[d].st # "idle"
     /\ \A d \in 1..(c - 1) : conn[d].st # "closed"

Checkout(c) == [conn EXCEPT ![c].st = "busy"]

\* what a statement on connection c sees of user_budgets (READ COMMITTED plus
\* the connection's own uncommitted increments)
RECURSIVE SumTotals(_)
SumTotals(S) ==
  IF S = {} THEN 0
  ELSE LET x == CHOOSE y \in S : TRUE
       IN x.total + SumTotals(S \ {x})

PendingFor(c, u) == {i \in conn[c].incs : i.user_id = u}

VisibleUsage(c, u) ==
  (IF userBudgets[u].exists THEN userBudgets[u].current_usage ELSE 0)
    + SumTotals(PendingFor(c, u))

\* the row lock of the counter upsert is held until the transaction ends
LockedByOther(c, u) == \E d \in Conns \ {c} : u \in conn[d].locks

\* COMMIT on connection c
CommittedUsage(c) == tokenUsage \cup conn[c].rows

CommittedBudgets(c) ==
  [u \in UserIds |->
     IF PendingFor(c, u) = {} THEN userBudgets[u]
     ELSE [exists |-> TRUE,
           current_usage |-> VisibleUsage(c, u)]]

CommittedCredits(c) == budgetCredits \cup {i.call : i \in conn[c].incs}

\* ---------------------------------------------------------------- recordUsage
IdleCall == [pc |-> "idle", userId |-> "", inputTokens |-> 0, outputTokens |-> 0, conn |-> 0]

UsageRow(k) ==
  [call |-> k, user_id |-> ru[k].userId,
   input_tokens |-> ru[k].inputTokens, output_tokens |-> ru[k].outputTokens]

UsageInc(k) ==
  [call |-> k, user_id |-> ru[k].userId,
   total |-> ru[k].inputTokens + ru[k].outputTokens]

\* const pool = getPool(); if (!pool) return;
NewCall(u, i, o) ==
  [pc |-> IF config.databaseUrl THEN "begin" ELSE "done", userId |-> u, inputTokens |-> i,
   outputTokens |-> o, conn |-> 0]

\* the caller invokes recordUsage(params)
StartRecordUsage(k, u, i, o) ==
  /\ ru[k].pc = "idle"
  /\ \A j \in 1..(k - 1) : ru[j].pc # "idle"
  /\ ru' = [ru EXCEPT ![k] = NewCall(u, i, o)]
  /\ UNCHANGED <<conn, faults, tokenUsage, userBudgets, budgetCredits, lastBudget, reads, config, server, pipeVars, keyVars>>

\* pool.query(...): the pool picks the client that will run the statement
RuIssue(k, c) ==
  /\ ru[k].pc \in {"begin", "insert", "upsert", "commit", "rollback"}
  /\ ru[k].conn = 0
  /\ Available(c)
  /\ conn' = Checkout(c)
  /\ ru' = [ru EXCEPT ![k].conn = c]
  /\ UNCHANGED <<faults, tokenUsage, userBudgets, budgetCredits, lastBudget, reads, config, server, pipeVars, keyVars>>

\* the statement ends: the client goes back to the pool, the call moves on
Released(c, rec) == [conn EXCEPT ![c] = [rec EXCEPT !.st = "idle"]]

RuBegin(k) ==
  LET c == ru[k].conn IN
  /\ ru[k].pc = "begin"
  /\ c # 0
  /\ IF conn[c].aborted
     THEN /\ conn' = Released(c, conn[c])
          /\ ru' = [ru EXCEPT ![k].pc = "rollback", ![k].conn = 0]
     ELSE /\ conn' = Released(c, [conn[c] EXCEPT !.tx = TRUE])
          /\ ru' = [ru EXCEPT ![k].pc = "insert", ![k].conn = 0]
  /\ UNCHANGED <<faults, tokenUsage, userBudgets, budgetCredits, lastBudget, reads, config, server, pipeVars, keyVars>>

\* a statement that fails inside a transaction block aborts the block
Failed(rec) == IF rec.tx THEN [rec EXCEPT !.aborted = TRUE] ELSE rec

RuInsert(k) ==
  LET c == ru[k].conn IN
  /\ ru[k].pc = "insert"
  /\ c # 0
  /\ \/ /\ conn[c].aborted
        /\ conn' = Released(c, conn[c])
        /\ ru' = [ru EXCEPT ![k].pc = "rollback", ![k].conn = 0]
        /\ UNCHANGED <<tokenUsage, faults>>
     \/ /\ ~conn[c].aborted
        /\ faults < MaxFaults
        /\ faults' = faults + 1
        /\ conn' = Released(c, Failed(conn[c]))
        /\ ru' = [ru EXCEPT ![k].pc = "rollback", ![k].conn = 0]
        /\ UNCHANGED tokenUsage
     \/ /\ ~conn[c].aborted
        /\ IF conn[c].tx
           THEN /\ conn' = Released(c, [conn[c] EXCEPT !.rows = @ \cup {UsageRow(k)}])
                /\ UNCHANGED tokenUsage
           ELSE /\ conn' = Released(c, conn[c])
                /\ tokenUsage' = tokenUsage \cup {UsageRow(k)}
        /\ ru' = [ru EXCEPT ![k].pc = "upsert", ![k].conn = 0]
        /\ UNCHANGED faults
  /\ UNCHANGED <<userBudgets, budgetCredits, lastBudget, reads, config, server, pipeVars, keyVars>>

\* INSERT ... ON CONFLICT (user_id, period_start) DO UPDATE
\*   SET current_usage = user_budgets.current_usage + total
RuUpsert(k) ==
  LET c == ru[k].conn
      u == ru[k].userId
  IN
  /\ ru[k].pc = "upsert"
  /\ c # 0
  /\ \/ /\ conn[c].aborted
        /\ conn' = Released(c, conn[c])
        /\ ru' = [ru EXCEPT ![k].pc = "rollback", ![k].conn = 0]
        /\ UNCHANGED <<userBudgets, budgetCredits, faults>>
     \/ /\ ~conn[c].aborted
        /\ faults < MaxFaults
        /\ faults' = faults + 1
        /\ conn' = Released(c, Failed(conn[c]))
        /\ ru' = [ru EXCEPT ![k].pc = "rollback", ![k].conn = 0]
        /\ UNCHANGED <<userBudgets, budgetCredits>>
     \/ /\ ~conn[c].aborted
        /\ ~LockedByOther(c, u)
        /\ IF conn[c].tx
           THEN /\ conn' = Released(c, [conn[c] EXCEPT !.incs = @ \cup {UsageInc(k)},
                                                       !.locks = @ \cup {u}])
                /\ UNCHANGED <<userBudgets, budgetCredits>>
           ELSE /\ conn' = Released(c, conn[c])
                /\ userBudgets' =
                     [userBudgets EXCEPT ![u] =
                        [exists |-> TRUE,
                         current_usage |-> VisibleUsage(c, u) + UsageInc(k).total]]
                /\ budgetCredits' = budgetCredits \cup {k}
        /\ ru' = [ru EXCEPT ![k].pc = "commit", ![k].conn = 0]
        /\ UNCHANGED faults
  /\ UNCHANGED <<tokenUsage, lastBudget, reads, config, server, pipeVars, keyVars>>

RuCommit(k) ==
  LET c == ru[k].conn IN
  /\ ru[k].pc = "commit"
  /\ c # 0
  /\ IF conn[c].tx /\ ~conn[c].aborted
     THEN /\ tokenUsage' = CommittedUsage(c)
          /\ userBudgets' = CommittedBudgets(c)
          /\ budgetCredits' = CommittedCredits(c)
          /\ auditLogs' = auditLogs \cup conn[c].audits
     ELSE UNCHANGED <<tokenUsage, userBudgets, budgetCredits, auditLogs>>
  /\ conn' = Released(c, [st |-> "busy"] @@ NoTx)
  /\ ru' = [ru EXCEPT ![k].pc = "done", ![k].conn = 0]
  /\ UNCHANGED <<lastBudget, reads, faults, config, server, req, keyVars>>

\* catch (err) { await pool.query("ROLLBACK").catch(() => {}); logger.error(...) }
RuRollback(k) ==
  LET c == ru[k].conn IN
  /\ ru[k].pc = "rollback"
  /\ c # 0
  /\ conn' = Released(c, [st |-> "busy"] @@ NoTx)
  /\ ru' = [ru EXCEPT ![k].pc = "failed", ![k].conn = 0]
  /\ UNCHANGED <<faults, tokenUsage, userBudgets, budgetCredits, lastBudget, reads, config, server, pipeVars, keyVars>>

\* ---------------------------------------------------------------- getUserBudget
\* Math.round((currentUsage / monthlyLimit) * 100), halves rounded up
PercentUsed(currentUsage, monthlyLimit) ==
  (200 * currentUsage + monthlyLimit) \div (2 * monthlyLimit)

evaluateBudgetAboveLimit(currentUsage, monthlyLimit) ==
  IF monthlyLimit <= 0
  THEN [exceeded |-> FALSE, warningThreshold |-> FALSE, percentUsed |-> 0]
  ELSE [exceeded |-> currentUsage > monthlyLimit,
        warningThreshold |-> currentUsage * 10 >= monthlyLimit * 8,
        percentUsed |-> PercentUsed(currentUsage, monthlyLimit)]

evaluateBudgetWarnsAbove(currentUsage, monthlyLimit) ==
  IF monthlyLimit <= 0
  THEN [exceeded |-> FALSE, warningThreshold |-> FALSE, percentUsed |-> 0]
  ELSE [exceeded |-> currentUsage >= monthlyLimit,
        warningThreshold |-> currentUsage * 10 > monthlyLimit * 8,
        percentUsed |-> PercentUsed(currentUsage, monthlyLimit)]

\* monthlyLimit === null is monthlyLimit = 0 here, as in ROLE_DEFINITIONS
evaluateBudget(currentUsage, monthlyLimit) ==
  IF monthlyLimit <= 0
  THEN [exceeded |-> FALSE, warningThreshold |-> FALSE, percentUsed |-> 0]
  ELSE [exceeded |-> currentUsage >= monthlyLimit,
        warningThreshold |-> currentUsage * 10 >= monthlyLimit * 8,
        percentUsed |-> PercentUsed(currentUsage, monthlyLimit)]

\* a call evaluateBudget(currentUsage, monthlyLimit), before it returns
Unevaluated(currentUsage, monthlyLimit) ==
  [currentUsage |-> currentUsage, monthlyLimit |-> monthlyLimit, returned |-> FALSE,
   exceeded |-> FALSE, warningThreshold |-> FALSE, percentUsed |-> 0]

UsedValues == 0..MaxUsed
Limits == (-1)..MaxLimit

\* the call returns
Evaluate ==
  /\ ~lastBudget.returned
  /\ lastBudget' =
       LET out == evaluateBudget(lastBudget.currentUsage, lastBudget.monthlyLimit) IN
       [lastBudget EXCEPT !.returned = TRUE, !.exceeded = out.exceeded,
                          !.warningThreshold = out.warningThreshold,
                          !.percentUsed = out.percentUsed]
  /\ UNCHANGED <<tokenUsage, userBudgets, budgetCredits, ru, reads, faults, conn, config, server,
                 pipeVars, keyVars>>

\* the next call
CallEvaluate(currentUsage, monthlyLimit) ==
  /\ lastBudget.returned
  /\ lastBudget' = Unevaluated(currentUsage, monthlyLimit)
  /\ UNCHANGED <<tokenUsage, userBudgets, budgetCredits, ru, reads, faults, conn, config, server,
                 pipeVars, keyVars>>

\* no recordUsage call is in flight and none has failed
Settled == \A k \in Calls : ru[k].pc \in {"idle", "done"}

DoneTotal(u) ==
  SumTotals({UsageInc(k) : k \in {j \in Calls : ru[j].pc = "done" /\ ru[j].userId = u}})

getUserBudget(u, role, c) ==
  /\ reads < MaxReads
  /\ Available(c)
  /\ reads' = reads + 1
  /\ lastBudget' =
       IF conn[c].aborted
       THEN [ok |-> FALSE, userId |-> u, role |-> role, currentUsage |-> 0,
             exceeded |-> FALSE, warningThreshold |-> FALSE,
             settled |-> Settled, expected |-> DoneTotal(u)]
       ELSE [ok |-> TRUE, userId |-> u, role |-> role,
             currentUsage |-> VisibleUsage(c, u),
             exceeded |-> evaluateBudget(VisibleUsage(c, u), getMonthlyBudget(role)).exceeded,
             warningThreshold |->
               evaluateBudget(VisibleUsage(c, u), getMonthlyBudget(role)).warningThreshold,
             settled |-> Settled, expected |-> DoneTotal(u)]
  /\ conn' = IF conn[c].st = "closed" THEN [conn EXCEPT ![c].st = "idle"] ELSE conn
  /\ UNCHANGED <<tokenUsage, userBudgets, budgetCredits, ru, faults, config, server, pipeVars, keyVars>>

\* ---------------------------------------------------------------- apiKeyService
hashKey(rawKey) == <<"sha256", rawKey>>

\* userEmail.split("@")[0]
UserIdOf(userEmail) == userEmail[1]

isValidRole(role) == role \in Roles

\* the api_keys row a statement on connection c sees
KeyView(c, id) == IF id \in conn[c].kdirty THEN conn[c].kover[id] ELSE apiKeys[id]

KeyLockedByOther(c, id) == \E d \in Conns \ {c} : id \in conn[d].klocks

\* another open transaction holds an uncommitted row with this key_hash
HashPendingElsewhere(c, h) ==
  \E d \in Conns \ {c} : \E id \in conn[d].kdirty :
    conn[d].kover[id].exists /\ conn[d].kover[id].key_hash = h

\* key_hash is UNIQUE over all rows, active or not
HashTaken(c, h) == \E id \in KeyIds : KeyView(c, id).exists /\ KeyView(c, id).key_hash = h

\* randomBytes(32): a value no row holds yet (the least such stands for all of
\* them) or, by collision, one that a row already holds
UsedRawKeys ==
  {k \in RawKeys : \/ \E id \in KeyIds : apiKeys[id].exists /\ apiKeys[id].key_hash = hashKey(k)
                   \/ \E d \in Conns : \E id \in conn[d].kdirty :
                        conn[d].kover[id].exists /\ conn[d].kover[id].key_hash = hashKey(k)}

generateRawKey ==
  UsedRawKeys \cup {k \in RawKeys \ UsedRawKeys : \A m \in RawKeys \ UsedRawKeys : k <= m}

NewKeyRow(userEmail, role, rawKey) ==
  [exists |-> TRUE, user_id |-> UserIdOf(userEmail), user_email |-> userEmail,
   key_hash |-> hashKey(rawKey), role |-> role, is_active |-> TRUE,
   revoked_at |-> 0]

\* a write of row version `row` for id on connection c: into the open
\* transaction block of c if it has one, committed at once otherwise
WriteKeyConn(c, id, row) ==
  IF conn[c].tx
  THEN [conn[c] EXCEPT !.kover[id] = row, !.kdirty = @ \cup {id}, !.klocks = @ \cup {id}]
  ELSE conn[c]

WriteKeyTable(c, id, row) ==
  IF conn[c].tx THEN apiKeys ELSE [apiKeys EXCEPT ![id] = row]

CommittedKeys(c) ==
  [id \in KeyIds |-> IF id \in conn[c].kdirty THEN conn[c].kover[id] ELSE apiKeys[id]]

\* SELECT ... FROM api_keys WHERE key_hash = $1 AND is_active = TRUE
lookupKeyByHashAnyRow(c, keyHash) ==
  {id \in KeyIds : KeyView(c, id).exists /\ KeyView(c, id).key_hash = keyHash}

lookupKeyByHash(c, keyHash) ==
  {id \in KeyIds : /\ KeyView(c, id).exists
                   /\ KeyView(c, id).key_hash = keyHash
                   /\ KeyView(c, id).is_active}

\* UPDATE api_keys SET is_active = FALSE, revoked_at = NOW()
\*   WHERE id = $1 AND is_active = TRUE: the rows it changes
revokeTargetsAnyRow(c, keyId) ==
  {id \in {keyId} : KeyView(c, id).exists}

revokeTargets(c, keyId) ==
  {id \in {keyId} : KeyView(c, id).exists /\ KeyView(c, id).is_active}

DeactivatedKeepsRevokedAt(row) == [row EXCEPT !.is_active = FALSE]

\* revoked_at = NOW(): instants are compared per row only, so the new instant
\* is the one after the row's last
Deactivated(row) == [row EXCEPT !.is_active = FALSE, !.revoked_at = @ + 1]

\* ---------------------------------------------------------------- routes/api-keys
requireAdminAnyKnownRole(role) == role \in Roles

requireAdmin(role) == role = "admin"

\* the callers who are no admin and call the key-management surface
NonAdminCallers == {"business"}

Answer(op, status, code, keyId) ==
  [op |-> op, status |-> status, code |-> code, keyId |-> keyId, raw |-> 0]

\* POST /v1/admin/api-keys
CreateKey(callerRole, userEmail, role, rawKey, c) ==
  /\ UNCHANGED <<config, server, pipeVars, usageVars, rot>>
  /\ \/ /\ ~requireAdmin(callerRole)
        /\ lastResp' = Answer("create", 403, "forbidden", 0)
        /\ UNCHANGED <<conn, faults, apiKeys, keySeq>>
     \/ /\ requireAdmin(callerRole)
        /\ ~isValidRole(role)
        /\ lastResp' = Answer("create", 400, "invalid_request", 0)
        /\ UNCHANGED <<conn, faults, apiKeys, keySeq>>
     \/ /\ requireAdmin(callerRole)
        /\ isValidRole(role)
        /\ ~config.databaseUrl
        /\ lastResp' = Answer("create", 500, "internal_error", 0)
        /\ UNCHANGED <<conn, faults, apiKeys, keySeq>>
     \/ /\ requireAdmin(callerRole)
        /\ isValidRole(role)
        /\ config.databaseUrl
        /\ Available(c)
        /\ keySeq < MaxKeys
        /\ rawKey \in generateRawKey
        /\ \/ /\ conn[c].aborted
              /\ lastResp' = Answer("create", 500, "internal_error", 0)
              /\ conn' = [conn EXCEPT ![c].st = "idle"]
              /\ UNCHANGED <<faults, apiKeys, keySeq>>
           \/ /\ ~conn[c].aborted
              /\ HashTaken(c, hashKey(rawKey))
              /\ ~HashPendingElsewhere(c, hashKey(rawKey))
              /\ lastResp' = Answer("create", 500, "internal_error", 0)
              /\ keySeq' = keySeq + 1
              /\ conn' = [conn EXCEPT ![c] = [Failed(conn[c]) EXCEPT !.st = "idle"]]
              /\ UNCHANGED <<faults, apiKeys>>
           \/ /\ ~conn[c].aborted
              /\ ~HashTaken(c, hashKey(rawKey))
              /\ ~HashPendingElsewhere(c, hashKey(rawKey))
              /\ keySeq' = keySeq + 1
              /\ conn' = [conn EXCEPT ![c] =
                    [WriteKeyConn(c, keySeq + 1, NewKeyRow(userEmail, role, rawKey))
                       EXCEPT !.st = "idle"]]
              /\ apiKeys' = WriteKeyTable(c, keySeq + 1, NewKeyRow(userEmail, role, rawKey))
              /\ lastResp' = Answer("create", 201, "", keySeq + 1)
              /\ UNCHANGED faults

\* GET /v1/admin/api-keys: SELECT ... FROM api_keys WHERE is_active = TRUE
ListKeys(callerRole, c) ==
  /\ UNCHANGED <<config, server, pipeVars, usageVars, rot, keySeq, faults, apiKeys>>
  /\ \/ /\ ~requireAdmin(callerRole)
        /\ lastResp' = Answer("list", 403, "forbidden", 0)
        /\ UNCHANGED conn
     \/ /\ requireAdmin(callerRole)
        /\ ~config.databaseUrl
        /\ lastResp' = Answer("list", 500, "internal_error", 0)
        /\ UNCHANGED conn
     \/ /\ requireAdmin(callerRole)
        /\ config.databaseUrl
        /\ Available(c)
        /\ lastResp' = IF conn[c].aborted THEN Answer("list", 500, "internal_error", 0)
                       ELSE Answer("list", 200, "", 0)
        /\ conn' = [conn EXCEPT ![c].st = "idle"]

\* DELETE /v1/admin/api-keys/:keyId
RevokeKey(callerRole, keyId, c) ==
  /\ UNCHANGED <<config, server, pipeVars, usageVars, rot, keySeq, faults>>
  /\ \/ /\ ~requireAdmin(callerRole)
        /\ lastResp' = Answer("revoke", 403, "forbidden", 0)
        /\ UNCHANGED <<conn, apiKeys>>
     \/ /\ requireAdmin(callerRole)
        /\ ~config.databaseUrl
        /\ lastResp' = Answer("revoke", 500, "internal_error", keyId)
        /\ UNCHANGED <<conn, apiKeys>>
     \/ /\ requireAdmin(callerRole)
        /\ config.databaseUrl
        /\ Available(c)
        /\ conn[c].aborted
        /\ lastResp' = Answer("revoke", 500, "internal_error", keyId)
        /\ conn' = [conn EXCEPT ![c].st = "idle"]
        /\ UNCHANGED apiKeys
     \/ /\ requireAdmin(callerRole)
        /\ config.databaseUrl
        /\ Available(c)
        /\ ~conn[c].aborted
        /\ revokeTargets(c, keyId) = {}
        /\ lastResp' = Answer("revoke", 404, "not_found", keyId)
        /\ conn' = [conn EXCEPT ![c].st = "idle"]
        /\ UNCHANGED apiKeys
     \/ /\ requireAdmin(callerRole)
        /\ config.databaseUrl
        /\ Available(c)
        /\ ~conn[c].aborted
        /\ revokeTargets(c, keyId) # {}
        /\ ~KeyLockedByOther(c, keyId)
        /\ conn' = [conn EXCEPT ![c] =
              [WriteKeyConn(c, keyId, Deactivated(KeyView(c, keyId))) EXCEPT !.st = "idle"]]
        /\ apiKeys' = WriteKeyTable(c, keyId, Deactivated(KeyView(c, keyId)))
        /\ lastResp' = Answer("revoke", 200, "", keyId)

\* ---------------------------------------------------------------- rotateApiKey
IdleRotation == [pc |-> "idle", keyId |-> 0, conn |-> 0, found |-> NoKey,
                 marked |-> FALSE, newId |-> 0, result |-> "none"]

\* POST /v1/admin/api-keys/:keyId/rotate, up to const client = await pool.connect()
RotateStart(j, callerRole, keyId, c) ==
  /\ rot[j].pc = "idle"
  /\ \A i \in 1..(j - 1) : rot[i].pc # "idle"
  /\ UNCHANGED <<config, server, pipeVars, usageVars, faults, apiKeys, keySeq>>
  /\ \/ /\ ~requireAdmin(callerRole)
        /\ lastResp' = Answer("rotate", 403, "forbidden", 0)
        /\ UNCHANGED <<conn, rot>>
     \/ /\ requireAdmin(callerRole)
        /\ ~config.databaseUrl
        /\ lastResp' = Answer("rotate", 500, "internal_error", keyId)
        /\ UNCHANGED <<conn, rot>>
     \/ /\ requireAdmin(callerRole)
        /\ config.databaseUrl
        /\ Available(c)
        /\ conn' = Checkout(c)
        /\ rot' = [rot EXCEPT ![j] = [IdleRotation EXCEPT !.pc = "begin", !.keyId = keyId,
                                                          !.conn = c]]
        /\ UNCHANGED lastResp

\* await client.query("BEGIN")
RotateBeginNoTx(j) ==
  /\ rot[j].pc = "begin"
  /\ rot' = [rot EXCEPT ![j].pc = IF conn[rot[j].conn].aborted THEN "rollback" ELSE "select"]
  /\ UNCHANGED <<config, server, pipeVars, usageVars, conn, faults, apiKeys, keySeq, lastResp>>

RotateBegin(j) ==
  LET c == rot[j].conn IN
  /\ rot[j].pc = "begin"
  /\ IF conn[c].aborted
     THEN /\ rot' = [rot EXCEPT ![j].pc = "rollback"]
          /\ UNCHANGED conn
     ELSE /\ rot' = [rot EXCEPT ![j].pc = "select"]
          /\ conn' = [conn EXCEPT ![c].tx = TRUE]
  /\ UNCHANGED <<config, server, pipeVars, usageVars, faults, apiKeys, keySeq, lastResp>>

RotateSelectNoLock(j) ==
  LET c == rot[j].conn
      id == rot[j].keyId
  IN
  /\ rot[j].pc = "select"
  /\ IF conn[c].aborted
     THEN rot' = [rot EXCEPT ![j].pc = "rollback"]
     ELSE IF revokeTargets(c, id) = {}
     THEN rot' = [rot EXCEPT ![j].pc = "notfound"]
     ELSE rot' = [rot EXCEPT ![j].pc = "update", ![j].found = KeyView(c, id)]
  /\ UNCHANGED <<config, server, pipeVars, usageVars, conn, faults, apiKeys, keySeq, lastResp>>

\* SELECT user_id, user_email, role FROM api_keys
\*   WHERE id = $1 AND is_active = TRUE FOR UPDATE
RotateSelect(j) ==
  LET c == rot[j].conn
      id == rot[j].keyId
  IN
  /\ rot[j].pc = "select"
  /\ IF conn[c].aborted
     THEN /\ rot' = [rot EXCEPT ![j].pc = "rollback"]
          /\ UNCHANGED conn
     ELSE IF revokeTargets(c, id) = {}
     THEN /\ rot' = [rot EXCEPT ![j].pc = "notfound"]
          /\ UNCHANGED conn
     ELSE /\ ~KeyLockedByOther(c, id)
          /\ rot' = [rot EXCEPT ![j].pc = "update", ![j].found = KeyView(c, id)]
          /\ conn' = [conn EXCEPT ![c].klocks = @ \cup {id}]
  /\ UNCHANGED <<config, server, pipeVars, usageVars, faults, apiKeys, keySeq, lastResp>>

\* if (existing.rows.length === 0) { await client.query("ROLLBACK"); return null; }
RotateNotFound(j) ==
  LET c == rot[j].conn IN
  /\ rot[j].pc = "notfound"
  /\ conn' = [conn EXCEPT ![c] = [st |-> "busy"] @@ NoTx]
  /\ rot' = [rot EXCEPT ![j].pc = "release", ![j].result = "null"]
  /\ UNCHANGED <<config, server, pipeVars, usageVars, faults, apiKeys, keySeq, lastResp>>

\* UPDATE api_keys SET is_active = FALSE, revoked_at = NOW() WHERE id = $1
RotateUpdateKeepsActive(j) ==
  /\ rot[j].pc = "update"
  /\ rot' = [rot EXCEPT ![j].pc = "insert", ![j].marked = TRUE]
  /\ UNCHANGED <<config, server, pipeVars, usageVars, conn, faults, apiKeys, keySeq, lastResp>>

RotateUpdate(j) ==
  LET c == rot[j].conn
      id == rot[j].keyId
  IN
  /\ rot[j].pc = "update"
  /\ \/ /\ faults < MaxFaults
        /\ faults' = faults + 1
        /\ conn' = [conn EXCEPT ![c] = Failed(conn[c])]
        /\ rot' = [rot EXCEPT ![j].pc = "rollback"]
        /\ UNCHANGED apiKeys
     \/        /\ conn' = [conn EXCEPT ![c] = WriteKeyConn(c, id, Deactivated(KeyView(c, id)))]
        /\ apiKeys' = WriteKeyTable(c, id, Deactivated(KeyView(c, id)))
        /\ rot' = [rot EXCEPT ![j].pc = "insert", ![j].marked = TRUE]
        /\ UNCHANGED faults
  /\ UNCHANGED <<config, server, pipeVars, usageVars, keySeq, lastResp>>

\* INSERT INTO api_keys (user_id, user_email, key_hash, key_prefix, role)
\*   with a freshly generated raw key
RotateInsert(j, rawKey) ==
  LET c == rot[j].conn
      id == rot[j].keyId
      old == rot[j].found
      row == [NewKeyRow(old.user_email, old.role, rawKey) EXCEPT !.user_id = old.user_id]
  IN
  /\ rot[j].pc = "insert"
  /\ keySeq < MaxKeys
  /\ rawKey \in generateRawKey
  /\ \/ /\ HashTaken(c, hashKey(rawKey))
        /\ ~HashPendingElsewhere(c, hashKey(rawKey))
        /\ keySeq' = keySeq + 1
        /\ conn' = [conn EXCEPT ![c] = Failed(conn[c])]
        /\ rot' = [rot EXCEPT ![j].pc = "rollback"]
        /\ UNCHANGED <<faults, apiKeys>>
     \/ /\ faults < MaxFaults
        /\ faults' = faults + 1
        /\ conn' = [conn EXCEPT ![c] = Failed(conn[c])]
        /\ rot' = [rot EXCEPT ![j].pc = "rollback"]
        /\ UNCHANGED <<keySeq, apiKeys>>
     \/ /\ ~HashTaken(c, hashKey(rawKey))
        /\ ~HashPendingElsewhere(c, hashKey(rawKey))
        /\ keySeq' = keySeq + 1
        /\ conn' = [conn EXCEPT ![c] = WriteKeyConn(c, keySeq + 1, row)]
        /\ apiKeys' = WriteKeyTable(c, keySeq + 1, row)
        /\ rot' = [rot EXCEPT ![j].pc = "commit", ![j].newId = keySeq + 1]
        /\ UNCHANGED faults
  /\ UNCHANGED <<config, server, pipeVars, usageVars, lastResp>>

\* await client.query("COMMIT")
RotateCommit(j) ==
  LET c == rot[j].conn IN
  /\ rot[j].pc = "commit"
  /\ apiKeys' = CommittedKeys(c)
  /\ tokenUsage' = CommittedUsage(c)
  /\ userBudgets' = CommittedBudgets(c)
  /\ budgetCredits' = CommittedCredits(c)
  /\ auditLogs' = auditLogs \cup conn[c].audits
  /\ conn' = [conn EXCEPT ![c] = [st |-> "busy"] @@ NoTx]
  /\ rot' = [rot EXCEPT ![j].pc = "release", ![j].result = "key"]
  /\ UNCHANGED <<config, server, req, ru, lastBudget, reads, faults, keySeq, lastResp>>

\* catch (err) { await client.query("ROLLBACK").catch(() => {}); throw err; }
RotateRollback(j) ==
  LET c == rot[j].conn IN
  /\ rot[j].pc = "rollback"
  /\ conn' = [conn EXCEPT ![c] = [st |-> "busy"] @@ NoTx]
  /\ rot' = [rot EXCEPT ![j].pc = "release", ![j].result = "threw"]
  /\ UNCHANGED <<config, server, pipeVars, usageVars, faults, apiKeys, keySeq, lastResp>>

\* finally { client.release(); } and the route's answer
RotateRelease(j) ==
  LET c == rot[j].conn IN
  /\ rot[j].pc = "release"
  /\ conn' = [conn EXCEPT ![c].st = "idle"]
  /\ rot' = [rot EXCEPT ![j] = [IdleRotation EXCEPT !.pc = "done"]]
  /\ lastResp' =
       CASE rot[j].result = "key"  -> Answer("rotate", 200, "", rot[j].newId)
         [] rot[j].result = "null" -> Answer("rotate", 404, "not_found", rot[j].keyId)
         [] OTHER                  -> Answer("rotate", 500, "internal_error", rot[j].keyId)
  /\ UNCHANGED <<config, server, pipeVars, usageVars, faults, apiKeys, keySeq>>

revokeApiKeyAnyRow(j, keyId, c) ==
  /\ rot[j].pc = "idle"
  /\ config.databaseUrl
  /\ Available(c)
  /\ ~KeyLockedByOther(c, keyId)
  /\ conn' = [conn EXCEPT ![c] =
        [WriteKeyConn(c, keyId, Deactivated(KeyView(c, keyId))) EXCEPT !.st = "idle"]]
  /\ apiKeys' = WriteKeyTable(c, keyId, Deactivated(KeyView(c, keyId)))
  /\ rot' = [rot EXCEPT ![j] = [IdleRotation EXCEPT !.pc = "done", !.keyId = keyId,
                                                    !.result = "true"]]
  /\ UNCHANGED <<config, server, pipeVars, usageVars, keySeq, faults, lastResp>>

\* revokeApiKey(keyId), as call j: UPDATE api_keys SET is_active = FALSE,
\* revoked_at = NOW() WHERE id = $1 AND is_active = TRUE, on a connection of
\* the pool; it returns rowCount > 0. The UPDATE waits for a row lock held by
\* another transaction and then reads the row again
revokeApiKey(j, keyId, c) ==
  /\ rot[j].pc = "idle"
  /\ config.databaseUrl
  /\ Available(c)
  /\ UNCHANGED <<config, server, pipeVars, usageVars, keySeq, faults, lastResp>>
  /\ \/ /\ conn[c].aborted
        /\ conn' = [conn EXCEPT ![c].st = "idle"]
        /\ rot' = [rot EXCEPT ![j] = [IdleRotation EXCEPT !.pc = "done", !.keyId = keyId,
                                                          !.result = "threw"]]
        /\ UNCHANGED apiKeys
     \/ /\ ~conn[c].aborted
        /\ revokeTargets(c, keyId) = {}
        /\ conn' = [conn EXCEPT ![c].st = "idle"]
        /\ rot' = [rot EXCEPT ![j] = [IdleRotation EXCEPT !.pc = "done", !.keyId = keyId,
                                                          !.result = "false"]]
        /\ UNCHANGED apiKeys
     \/ /\ ~conn[c].aborted
        /\ revokeTargets(c, keyId) # {}
        /\ ~KeyLockedByOther(c, keyId)
        /\ conn' = [conn EXCEPT ![c] =
              [WriteKeyConn(c, keyId, Deactivated(KeyView(c, keyId))) EXCEPT !.st = "idle"]]
        /\ apiKeys' = WriteKeyTable(c, keyId, Deactivated(KeyView(c, keyId)))
        /\ rot' = [rot EXCEPT ![j] = [IdleRotation EXCEPT !.pc = "done", !.keyId = keyId,
                                                          !.result = "true"]]

\* ---------------------------------------------------------------- middleware/auth
GROUP_PRIORITY ==
  <<"AI-Platform-Admins", "AI-Platform-Engineers", "AI-Platform-Power", "AI-Platform-Business">>

GROUP_ROLE_MAP(group) ==
  CASE group = "AI-Platform-Admins"    -> "admin"
    [] group = "AI-Platform-Engineers" -> "engineer"
    [] group = "AI-Platform-Power"     -> "power_user"
    [] group = "AI-Platform-Business"  -> "business"

mapGroupsToRole(groups) ==
  LET hits == {i \in 1..Len(GROUP_PRIORITY) : GROUP_PRIORITY[i] \in groups}
  IN IF hits = {} THEN DEFAULT_ROLE
     ELSE GROUP_ROLE_MAP(GROUP_PRIORITY[CHOOSE i \in hits : \A h \in hits : i <= h])

MailAddr(userEmail) == userEmail[1] \o "@" \o userEmail[2]

NoEmail == <<"", "">>

\* Authorization header: no bearer token, a dynamo-sk- token (well formed, then
\* it is one of RawKeys, or not), an eyJ token (verifies or not), another token
ApiKeyTokens ==
  {[kind |-> "api_key", wellFormed |-> TRUE, raw |-> k] : k \in RawKeys}
    \cup {[kind |-> "api_key", wellFormed |-> FALSE, raw |-> 0]}

JwtTokens ==
  {[kind |-> "jwt", valid |-> FALSE, sub |-> "", email |-> NoEmail, groups |-> {}, role |-> ""],
   [kind |-> "jwt", valid |-> TRUE, sub |-> "ana", email |-> <<"ana", "dynamo.works">>,
    groups |-> {}, role |-> "engineer"],
   [kind |-> "jwt", valid |-> TRUE, sub |-> "bo", email |-> <<"bo", "dynamo.works">>,
    groups |-> {"AI-Platform-Business"}, role |-> ""],
   [kind |-> "jwt", valid |-> TRUE, sub |-> "bo", email |-> <<"bo", "dynamo.works">>,
    groups |-> {"AI-Platform-Business", "AI-Platform-Admins"}, role |-> "business"]}

OtherTokens == {[kind |-> "none"], [kind |-> "other"]}

\* X-User-Id, X-User-Email, X-User-Role, X-Mock-User-Email, X-Mock-User-Role;
\* "" and NoEmail stand for an absent header
NoHeaders ==
  [xUserId |-> "", xUserEmail |-> NoEmail, xUserRole |-> "", xMockEmail |-> NoEmail,
   xMockRole |-> ""]

HeaderCases ==
  {NoHeaders,
   [xUserId |-> "ana", xUserEmail |-> NoEmail, xUserRole |-> "admin", xMockEmail |-> NoEmail,
    xMockRole |-> ""],
   [xUserId |-> "bo", xUserEmail |-> NoEmail, xUserRole |-> "engineer",
    xMockEmail |-> <<"bo", "dynamo.works">>, xMockRole |-> "business"]}

detectAuthMethod(token) ==
  CASE token.kind = "api_key" -> "api_key"
    [] token.kind = "jwt"     -> "jwt"
    [] OTHER                  -> "none"

isValidKeyFormat(token) == token.kind = "api_key" /\ token.wellFormed

Rejected(status, code) ==
  [status |-> status, code |-> code, userId |-> "", userEmail |-> NoEmail, role |-> "",
   authMethod |-> "none", apiKeyId |-> 0]

Accepted(userId, userEmail, role, method, keyId) ==
  [status |-> 200, code |-> "", userId |-> userId, userEmail |-> userEmail, role |-> role,
   authMethod |-> method, apiKeyId |-> keyId]

\* the api-key path runs a lookup query when the key is well formed and a pool exists
NeedsLookup(token) == isValidKeyFormat(token) /\ config.databaseUrl

authenticateApiKey(token, c) ==
  IF ~isValidKeyFormat(token) THEN Rejected(401, "invalid_api_key")
  ELSE IF ~config.databaseUrl THEN Rejected(401, "invalid_api_key")
  ELSE IF conn[c].aborted THEN Rejected(500, "internal_error")
  ELSE LET found == lookupKeyByHash(c, hashKey(token.raw)) IN
       IF found = {} THEN Rejected(401, "invalid_api_key")
       ELSE LET id == CHOOSE i \in found : TRUE
                row == KeyView(c, id)
            IN Accepted(row.user_id, row.user_email, row.role, "api_key", id)

authenticateJwtPrefersClaim(token) ==
  IF ~token.valid THEN Rejected(401, "invalid_token")
  ELSE LET userId == IF token.sub # "" THEN token.sub
                     ELSE IF token.email # NoEmail THEN MailAddr(token.email) ELSE "unknown"
           role == IF token.role # "" THEN token.role
                   ELSE IF token.groups # {} THEN mapGroupsToRole(token.groups)
                   ELSE DEFAULT_ROLE
       IN Accepted(userId, token.email, role, "jwt", 0)

authenticateJwt(token) ==
  IF ~token.valid THEN Rejected(401, "invalid_token")
  ELSE LET userId == IF token.sub # "" THEN token.sub
                     ELSE IF token.email # NoEmail THEN MailAddr(token.email) ELSE "unknown"
           role == IF token.groups # {} THEN mapGroupsToRole(token.groups)
                   ELSE IF token.role # "" THEN token.role ELSE DEFAULT_ROLE
       IN Accepted(userId, token.email, role, "jwt", 0)

authenticateMock(hdr) ==
  LET email == IF hdr.xMockEmail # NoEmail THEN hdr.xMockEmail
               ELSE IF hdr.xUserEmail # NoEmail THEN hdr.xUserEmail
               ELSE <<"test", "dynamo.works">>
      userId == IF hdr.xUserId # "" THEN hdr.xUserId ELSE MailAddr(email)
      role == IF hdr.xMockRole # "" THEN hdr.xMockRole
              ELSE IF hdr.xUserRole # "" THEN hdr.xUserRole ELSE DEFAULT_ROLE
  IN Accepted(userId, email, role, "mock", 0)

authFallsBackToMock(token, hdr, c) ==
  IF detectAuthMethod(token) = "api_key" THEN authenticateApiKey(token, c)
  ELSE IF config.authMode = "oidc" /\ detectAuthMethod(token) = "jwt" THEN authenticateJwt(token)
  ELSE authenticateMock(hdr)

auth(token, hdr, c) ==
  IF config.authMode = "mock"
  THEN IF detectAuthMethod(token) = "api_key" THEN authenticateApiKey(token, c)
       ELSE authenticateMock(hdr)
  ELSE IF detectAuthMethod(token) = "api_key" THEN authenticateApiKey(token, c)
  ELSE IF detectAuthMethod(token) = "jwt" THEN authenticateJwt(token)
  ELSE Rejected(401, "auth_required")

\* a request presenting `token` passes the auth middleware; a successful key
\* lookup also dispatches the last_used_at update, which runs as TouchLastUsed
Authenticate(token, hdr, c) ==
  /\ NeedsLookup(token) => Available(c)
  /\ lastResp' = [Answer("auth", auth(token, hdr, c).status, auth(token, hdr, c).code,
                       auth(token, hdr, c).apiKeyId)
                  EXCEPT !.raw = IF isValidKeyFormat(token) THEN token.raw ELSE 0]
  /\ conn' = IF NeedsLookup(token) /\ conn[c].st = "closed"
             THEN [conn EXCEPT ![c].st = "idle"] ELSE conn
  /\ UNCHANGED <<config, server, pipeVars, usageVars, faults, apiKeys, keySeq, rot>>

\* SET last_used_at = NOW(): no statement modelled here reads the column, so
\* the update leaves the modelled columns as they are
Touched(row) == row

\* pool.query(`UPDATE api_keys SET last_used_at = NOW() WHERE id = $1`).catch(log)
\* of an earlier successful lookup of row id; which lookups still have their
\* update under way is not tracked, any row that exists may have one
TouchLastUsed(id, c) ==
  /\ config.databaseUrl
  /\ apiKeys[id].exists
  /\ Available(c)
  /\ \/ /\ conn[c].aborted
        /\ conn' = [conn EXCEPT ![c].st = "idle"]
        /\ UNCHANGED apiKeys
     \/ /\ ~conn[c].aborted
        /\ ~KeyLockedByOther(c, id)
        /\ conn' = [conn EXCEPT ![c] =
              [WriteKeyConn(c, id, Touched(KeyView(c, id))) EXCEPT !.st = "idle"]]
        /\ apiKeys' = WriteKeyTable(c, id, Touched(KeyView(c, id)))
  /\ UNCHANGED <<config, server, pipeVars, usageVars, faults, keySeq, rot, lastResp>>

\* ---------------------------------------------------------------- the pipeline
\* app.use(auth) comes before the routes; each proxy route then chains its
\* middleware in front of its router
GlobalMiddleware == <<"auth">>

RouteChainAuditFirst(surface) ==
  CASE surface = "chat"     -> <<"audit", "scan", "budget", "route", "handler">>
    [] surface = "messages" -> <<"audit", "scan", "budget", "route", "handler">>
    [] surface = "budget"   -> <<"route", "budget_handler">>
    [] surface = "budget_summary" -> <<"route", "summary_handler">>

RouteChain(surface) ==
  CASE surface = "chat"     -> <<"scan", "budget", "route", "audit", "handler">>
    [] surface = "messages" -> <<"scan", "budget", "route", "audit", "handler">>
    [] surface = "budget"   -> <<"route", "budget_handler">>
    [] surface = "budget_summary" -> <<"route", "summary_handler">>

Chain(surface) == GlobalMiddleware \o RouteChain(surface)

\* next(): the middleware after `stage` in the chain of the surface
NextStage(surface, stage) ==
  LET i == CHOOSE n \in 1..Len(Chain(surface)) : Chain(surface)[n] = stage
  IN Chain(surface)[i + 1]

Surfaces == {"chat", "messages"}

\* a request body: the severities of the findings of scanText in its prompt
\* text (none for a clean or an empty text), whether messages and max_tokens
\* are there, stream, and the model asked for ("" for none)
Bodies ==
  [scan : SUBSET {"high", "medium"}, shape : {"ok", "no_messages", "no_max_tokens"},
   stream : BOOLEAN, model : {"", OPUS}]

NoBody == [scan |-> {}, shape |-> "ok", stream |-> FALSE, model |-> ""]

NoContext == [userId |-> "", userEmail |-> NoEmail, role |-> "", authMethod |-> "none",
              apiKeyId |-> 0]

\* what modelRouter logs as model_routed; done tells that it has run
NoRouting == [done |-> FALSE, requestedModel |-> "", resolvedModel |-> "", downgraded |-> FALSE]

\* the response stream of handleStream: flushed once res.flushHeaders() ran,
\* destroyed once the client is gone, aborted once stream.controller.abort()
\* ran, observedAt the number of frames written when the loop saw res.destroyed
\* (-1 before), next the upstream event the loop awaits, frames what res.write
\* was called with, and the two counters of the loop
NoStream ==
  [flushed |-> FALSE, destroyed |-> FALSE, aborted |-> FALSE, observedAt |-> -1, next |-> 1,
   frames |-> <<>>, inputTokens |-> 0, outputTokens |-> 0, streamModel |-> "",
   script |-> <<>>]

\* what a handler passes to recordUsage and to buildAuditEntry; made tells
\* that it did
NoRecord == [made |-> FALSE, model |-> "", inputTokens |-> 0, outputTokens |-> 0]

Recorded(model, inputTokens, outputTokens) ==
  [made |-> TRUE, model |-> model, inputTokens |-> inputTokens, outputTokens |-> outputTokens]

\* the writes a middleware dispatches without awaiting them: the last_used_at
\* update of lookupKeyByHash, upsertUserProfile and publishAlert; each is
\* "none" until dispatched, "pending" until it has ended
NoWrites == [touch |-> "none", upsert |-> "none", publish |-> "none"]

\* ---------------------------------------------------------------- sensitiveDataScanner
\* the patterns whose matches the texts below hold, in the order of their lists
HIGH_PATTERNS == <<"aws_access_key", "ssn", "db_password">>
MEDIUM_PATTERNS == <<"connection_string", "internal_ip">>

TYPE_LABELS ==
  [t \in {"aws_access_key", "ssn", "db_password", "connection_string", "internal_ip"} |->
     CASE t = "aws_access_key"    -> "AWS Access Key"
       [] t = "ssn"               -> "Social Security Number"
       [] t = "db_password"       -> "Database Password"
       [] t = "connection_string" -> "Connection String"
       [] t = "internal_ip"       -> "Internal IP Address"]

\* a matched string: its first four characters and what follows them
MatchValues == {<<"head", 1>>, <<"head", 2>>}

\* value.slice(0, 4) + "****"
redactValue(value) == <<value[1], "****">>

\* what regex.exec finds in a text: match.index, the length of match[0], the
\* string match[0], and what pat.validate says of it (true without validate)
PatternMatches ==
  {m \in [type : {"aws_access_key", "ssn", "db_password", "connection_string", "internal_ip"},
          index : 0..(MaxText - 1), length : 1..MaxText, value : MatchValues,
          valid : BOOLEAN] :
     /\ m.index + m.length <= MaxText
     /\ m.type # "ssn" => m.valid}

RangesOverlap(start, end, r) == start < r.end /\ end > r.start

\* a text is its length and the matches of the patterns in it; the matches of
\* one pattern follow one another (regex.lastIndex) and so do not overlap
NoMatch == [type |-> "none", index |-> 0, length |-> 1, value |-> <<"head", 1>>, valid |-> FALSE]

MatchSets ==
  {{t[i] : i \in 1..MaxMatches} \ {NoMatch} :
     t \in [1..MaxMatches -> PatternMatches \cup {NoMatch}]}

Texts ==
  {[length |-> MaxText, matches |-> ms] :
     ms \in {x \in MatchSets :
               \A a, b \in x :
                 (a # b /\ a.type = b.type) =>
                   ~RangesOverlap(a.index, a.index + a.length,
                                  [start |-> b.index, end |-> b.index + b.length])}}

\* the matches of a set in the order regex.exec returns them
InOrder(ms) ==
  LET Ahead(m) == Cardinality({x \in ms : x.index < m.index})
  IN [k \in 1..Cardinality(ms) |-> CHOOSE m \in ms : Ahead(m) = k - 1]

\* findings.push({type, severity, redactedValue, index}); end is
\* match.index + value.length, the end of the range the finding was matched in
FindingOf(m, severity) ==
  [type |-> m.type, severity |-> severity, redactedValue |-> redactValue(m.value),
   index |-> m.index, end |-> m.index + m.length]

RECURSIVE ScanPass(_, _, _, _)
\* one pass of scanText over the patterns pats: the valid matches of each
\* pattern that overlap none of the ranges in covered
ScanPass(text, pats, severity, covered) ==
  IF pats = <<>> THEN <<>>
  ELSE LET kept == {m \in text.matches :
                      /\ m.type = Head(pats)
                      /\ m.valid
                      /\ ~\E r \in covered :
                            RangesOverlap(m.index, m.index + m.length, r)}
           found == InOrder(kept)
       IN [k \in 1..Len(found) |-> FindingOf(found[k], severity)]
            \o ScanPass(text, Tail(pats), severity, covered)

ScanResultOf(findings) ==
  [hasHighSeverity |-> \E k \in 1..Len(findings) : findings[k].severity = "high",
   hasMediumSeverity |-> \E k \in 1..Len(findings) : findings[k].severity = "medium",
   findings |-> findings]

scanTextKeepsOverlaps(text) ==
  ScanResultOf(ScanPass(text, HIGH_PATTERNS, "high", {})
                 \o ScanPass(text, MEDIUM_PATTERNS, "medium", {}))

scanText(text) ==
  LET high == ScanPass(text, HIGH_PATTERNS, "high", {})
      coveredRanges == {[start |-> high[k].index, end |-> high[k].end] : k \in 1..Len(high)}
  IN ScanResultOf(high \o ScanPass(text, MEDIUM_PATTERNS, "medium", coveredRanges))

RECURSIVE Unique(_)
\* [...new Set(types)]: each type once, in the order of its first occurrence
Unique(types) ==
  IF types = <<>> THEN <<>>
  ELSE LET rest == Unique(SubSeq(types, 1, Len(types) - 1))
           last == types[Len(types)]
       IN IF \E k \in 1..Len(rest) : rest[k] = last THEN rest ELSE Append(rest, last)

\* the findings of severity high, in their order
HighFindings(findings) ==
  SelectSeq(findings, LAMBDA f : f.severity = "high")

buildBlockMessageWithValues(findings) ==
  LET highFindings == HighFindings(findings) IN
  IF Len(highFindings) = 0 THEN <<>>
  ELSE <<"Request blocked: sensitive data detected. Found: ">>
         \o [k \in 1..Len(highFindings) |->
               <<TYPE_LABELS[highFindings[k].type], highFindings[k].redactedValue>>]
         \o <<". Please remove sensitive data before retrying.">>

\* the message as the pieces it is joined from; "" is <<>>
buildBlockMessage(findings) ==
  LET highFindings == HighFindings(findings)
      uniqueTypes == Unique([k \in 1..Len(highFindings) |-> highFindings[k].type])
      labels == [k \in 1..Len(uniqueTypes) |-> TYPE_LABELS[uniqueTypes[k]]]
  IN IF Len(highFindings) = 0 THEN <<>>
     ELSE <<"Request blocked: sensitive data detected. Found: ">> \o labels
            \o <<". Please remove sensitive data before retrying.">>

\* the scan of a request's prompt: asked of scanText, and returned with the
\* message of the block when a finding is of severity high
NoScan == [asked |-> FALSE, returned |-> FALSE, text |-> [length |-> 0, matches |-> {}],
           result |-> ScanResultOf(<<>>), message |-> <<>>]

\* ---------------------------------------------------------------- classifier
\* the keys of CATEGORY_KEYWORDS, in their order
Categories ==
  <<"code_generation", "document_creation", "business_development", "human_resources",
    "accounting_finance">>

CLI_CODE_BIAS == 4

Sources == {"web", "cli"}

\* a prompt is what the classifier reads of it: whether promptText.trim() is
\* empty, and scoreCategory of its text for each category
ScoreVectors == [1..Len(Categories) -> 0..MaxScore]
BlankPrompt == [blank |-> TRUE, scores |-> [i \in 1..Len(Categories) |-> 0]]
Prompts == {BlankPrompt} \cup {[blank |-> FALSE, scores |-> v] : v \in ScoreVectors}

\* scores after if (source === "cli") scores.code_generation += CLI_CODE_BIAS
Biased(scores, source) ==
  [i \in 1..Len(Categories) |->
     IF i = 1 /\ source = "cli" THEN scores[i] + CLI_CODE_BIAS ELSE scores[i]]

\* Object.entries(scores).filter(([, s]) => s > 0).sort((a, b) => b[1] - a[1]):
\* the sort is stable, so equal scores stay in the order of the keys
Ranked(scores) ==
  LET positive == {i \in 1..Len(Categories) : scores[i] > 0}
      Ahead(i) == Cardinality({j \in positive :
                                 scores[j] > scores[i] \/ (scores[j] = scores[i] /\ j < i)})
  IN [k \in 1..Cardinality(positive) |-> CHOOSE i \in positive : Ahead(i) = k - 1]

\* Math.round((topScore / totalTop2) * 100) / 100, in hundredths
Confidence(topScore, secondScore) ==
  (200 * topScore + (topScore + secondScore)) \div (2 * (topScore + secondScore))

NoSecondary == ""
GeneralQa == [category |-> "general_qa", confidence |-> 100, secondary |-> NoSecondary]

classify(prompt, source) ==
  IF prompt.blank THEN GeneralQa
  ELSE LET scores == Biased(prompt.scores, source)
           ranked == Ranked(scores)
           secondScore == IF Len(ranked) > 1 THEN scores[ranked[2]] ELSE 0
       IN IF Len(ranked) = 0 THEN GeneralQa
          ELSE [category |-> Categories[ranked[1]],
                confidence |-> Confidence(scores[ranked[1]], secondScore),
                secondary |-> IF Len(ranked) > 1 /\ secondScore > 0
                              THEN Categories[ranked[2]] ELSE NoSecondary]

\* the classification of a request: asked of classify, and returned
NoClassification ==
  [asked |-> FALSE, returned |-> FALSE, prompt |-> BlankPrompt, source |-> "web",
   result |-> GeneralQa]

IdleRequest ==
  [pc |-> "idle", classification |-> NoClassification, scanned |-> NoScan, surface |-> "", token |-> [kind |-> "none"], hdr |-> NoHeaders,
   body |-> NoBody, context |-> NoContext, audit |-> FALSE, headers |-> {}, log |-> <<>>,
   alerts |-> <<>>, routed |-> NoRouting, upstreamModel |-> "", sse |-> NoStream,
   usageParams |-> NoRecord, auditEntry |-> NoRecord,
   bg |-> NoWrites, target |-> "", disclosed |-> {},
   status |-> 0, code |-> "", auditWrite |-> "none"]

PipelineTokens ==
  OtherTokens \cup JwtTokens
    \cup {[kind |-> "api_key", wellFormed |-> FALSE, raw |-> 0],
          [kind |-> "api_key", wellFormed |-> TRUE, raw |-> 1]}

\* the requests of the runs that do not vary the identity headers carry them
\* only where auth reads them: in mock mode, without an API key
HeadersRead(token, hdr) ==
  hdr # NoHeaders => (config.authMode = "mock" /\ token.kind # "api_key")

\* express.json, requestContext, requestLogger: the request enters the chain
Receive(r, surface, token, hdr, body) ==
  /\ req[r].pc = "idle"
  /\ server.accepting
  /\ \A i \in 1..(r - 1) : req[i].pc # "idle"
  /\ req' = [req EXCEPT ![r] =
       [IdleRequest EXCEPT !.pc = Chain(surface)[1], !.surface = surface, !.token = token,
                           !.hdr = hdr, !.body = body,
                           !.context = [NoContext EXCEPT !.userId = hdr.xUserId,
                                                         !.userEmail = hdr.xUserEmail]]]
  /\ UNCHANGED <<config, server, conn, faults, usageVars, keyVars, auditLogs>>

\* next(err) and errorHandler: the chain is left, the error is answered
Errored(rec, status, code) ==
  [rec EXCEPT !.pc = "done", !.status = status, !.code = code,
              !.log = Append(Append(@, "error"), "response_sent")]

\* the stage `stage` runs for the request
Ran(rec, stage) == [rec EXCEPT !.log = Append(@, stage)]

Passed(rec) == [rec EXCEPT !.pc = NextStage(rec.surface, rec.pc)]

\* auth. No later stage reads the Authorization header: the request keeps the
\* token as the credential that was verified, and in mock mode, where it is
\* none, drops it
AuthStage(r, c) ==
  LET rec == Ran(req[r], "auth")
      got == auth(rec.token, rec.hdr, c)
  IN
  /\ req[r].pc = "auth"
  /\ NeedsLookup(rec.token) => Available(c)
  /\ req' = [req EXCEPT ![r] =
       IF got.status # 200 THEN Errored(rec, got.status, got.code)
       ELSE Passed([rec EXCEPT !.context = [userId |-> got.userId, userEmail |-> got.userEmail,
                                            role |-> got.role, authMethod |-> got.authMethod,
                                            apiKeyId |-> got.apiKeyId],
                               !.bg.touch = IF got.authMethod = "api_key" THEN "pending"
                                            ELSE "none",
                               !.bg.upsert = IF got.authMethod = "jwt" THEN "pending"
                                             ELSE "none",
                               !.token = IF got.authMethod = "mock" THEN [kind |-> "none"]
                                         ELSE rec.token])]
  /\ conn' = IF NeedsLookup(rec.token) /\ conn[c].st = "closed"
             THEN [conn EXCEPT ![c].st = "idle"] ELSE conn
  /\ UNCHANGED <<config, server, faults, usageVars, keyVars, auditLogs>>

\* buildSecurityAlert: the alert is of severity high when a finding is
buildSecurityAlert(findings) ==
  [severity |-> IF "high" \in findings THEN "high" ELSE "medium"]

\* publishAlert(alert).catch(() => {}): the alert is handed to the publisher,
\* which sends it to the SNS topic or, without a topic, writes it to the log
Alerted(rec) ==
  [rec EXCEPT !.alerts = Append(@, buildSecurityAlert(rec.body.scan)),
              !.bg.publish = "pending"]

\* sensitiveDataScanner
ScanStageFallsThrough(r) ==
  LET rec == Ran(req[r], "scan") IN
  /\ req[r].pc = "scan"
  /\ req' = [req EXCEPT ![r] =
       CASE "high" \in rec.body.scan ->
              [Passed(Alerted(rec)) EXCEPT !.status = 400, !.code = "sensitive_data_blocked",
                                           !.log = Append(Append(@, "error"), "response_sent")]
         [] rec.body.scan = {"medium"} ->
              Passed(Alerted([rec EXCEPT !.headers = @ \cup {"X-Sensitive-Data-Warning"}]))
         [] OTHER -> Passed(rec)]
  /\ UNCHANGED <<config, server, conn, faults, usageVars, keyVars, auditLogs>>

ScanStageAdminBypass(r) ==
  LET rec == Ran(req[r], "scan") IN
  /\ req[r].pc = "scan"
  /\ req' = [req EXCEPT ![r] =
       CASE rec.context.role = "admin" -> Passed(rec)
         [] "high" \in rec.body.scan ->
              Errored(Alerted(rec), 400, "sensitive_data_blocked")
         [] rec.body.scan = {"medium"} ->
              Passed(Alerted([rec EXCEPT !.headers = @ \cup {"X-Sensitive-Data-Warning"}]))
         [] OTHER -> Passed(rec)]
  /\ UNCHANGED <<config, server, conn, faults, usageVars, keyVars, auditLogs>>

ScanStageMediumSilent(r) ==
  LET rec == Ran(req[r], "scan") IN
  /\ req[r].pc = "scan"
  /\ req' = [req EXCEPT ![r] =
       CASE "high" \in rec.body.scan ->
              Errored(Alerted(rec), 400, "sensitive_data_blocked")
         [] OTHER -> Passed(rec)]
  /\ UNCHANGED <<config, server, conn, faults, usageVars, keyVars, auditLogs>>

ScanStage(r) ==
  LET rec == Ran(req[r], "scan") IN
  /\ req[r].pc = "scan"
  /\ req' = [req EXCEPT ![r] =
       CASE "high" \in rec.body.scan ->
              Errored(Alerted(rec), 400, "sensitive_data_blocked")
         [] rec.body.scan = {"medium"} ->
              Passed(Alerted([rec EXCEPT !.headers = @ \cup {"X-Sensitive-Data-Warning"}]))
         [] OTHER -> Passed(rec)]
  /\ UNCHANGED <<config, server, conn, faults, usageVars, keyVars, auditLogs>>

\* the cases in which budgetEnforcer asks the store
Enforced(rec) ==
  /\ rec.context.userId # ""
  /\ rec.context.role # "admin"
  /\ config.budgetEnforcement # "none"
  /\ config.databaseUrl

\* catch (err) of budgetEnforcer for an error that is no AppError:
\* logger.error({action: "budget_check_failed"}), then next()
BudgetCheckFailedRejects(rec) == Errored(rec, 500, "internal_error")

BudgetCheckFailed(rec) == Passed([rec EXCEPT !.log = Append(@, "budget_check_failed")])

\* budgetEnforcer; the counter read fails on a connection whose transaction
\* block is aborted, or by a store fault
BudgetStage(r, c) ==
  LET rec == Ran(req[r], "budget")
      role == IF rec.context.role = "" THEN "business" ELSE rec.context.role
      budget == evaluateBudget(VisibleUsage(c, rec.context.userId), getMonthlyBudget(role))
  IN
  /\ req[r].pc = "budget"
  /\ Enforced(rec) => Available(c)
  /\ \/ /\ ~Enforced(rec)
        /\ req' = [req EXCEPT ![r] = Passed(rec)]
        /\ UNCHANGED <<conn, faults>>
     \/ /\ Enforced(rec)
        /\ conn[c].aborted
        /\ req' = [req EXCEPT ![r] = BudgetCheckFailed(rec)]
        /\ conn' = [conn EXCEPT ![c].st = "idle"]
        /\ UNCHANGED faults
     \/ /\ Enforced(rec)
        /\ ~conn[c].aborted
        /\ faults < MaxFaults
        /\ faults' = faults + 1
        /\ req' = [req EXCEPT ![r] = BudgetCheckFailed(rec)]
        /\ conn' = [conn EXCEPT ![c] = [Failed(conn[c]) EXCEPT !.st = "idle"]]
     \/ /\ Enforced(rec)
        /\ ~conn[c].aborted
        /\ req' = [req EXCEPT ![r] =
             IF budget.exceeded /\ config.budgetEnforcement = "hard"
             THEN Errored([rec EXCEPT !.headers = @ \cup {"X-Budget-Warning"}],
                          429, "budget_exceeded")
             ELSE IF budget.exceeded \/ budget.warningThreshold
             THEN Passed([rec EXCEPT !.headers = @ \cup {"X-Budget-Warning"}])
             ELSE Passed(rec)]
        /\ conn' = [conn EXCEPT ![c].st = "idle"]
        /\ UNCHANGED faults
  /\ UNCHANGED <<config, server, usageVars, keyVars, auditLogs>>

\* the highest-tier model of a non-empty set
BestOf(models) == CHOOSE m \in models : \A n \in models : getModelTier(n) <= getModelTier(m)

resolveModelKeepsRequested(requestedModel, role) ==
  LET effectiveRole == IF role \in Roles THEN role ELSE DEFAULT_ROLE
      roleDef == ROLE_DEFINITIONS[effectiveRole]
      model == IF requestedModel # "" THEN requestedModel ELSE config.defaultModel
  IN [resolvedModel |-> model, downgraded |-> model \notin roleDef.permittedModels,
      role |-> effectiveRole]

resolveModel(requestedModel, role) ==
  LET effectiveRole == IF role \in Roles THEN role ELSE DEFAULT_ROLE
      roleDef == ROLE_DEFINITIONS[effectiveRole]
      model == IF requestedModel # "" THEN requestedModel ELSE config.defaultModel
  IN IF effectiveRole = "admin"
     THEN [resolvedModel |-> model, downgraded |-> FALSE, role |-> effectiveRole]
     ELSE IF model \in roleDef.permittedModels
     THEN [resolvedModel |-> model, downgraded |-> FALSE, role |-> effectiveRole]
     ELSE [resolvedModel |-> IF roleDef.permittedModels # {}
                             THEN BestOf(roleDef.permittedModels) ELSE config.defaultModel,
           downgraded |-> TRUE, role |-> effectiveRole]

\* modelRouter
RoleOrHeaderPrefersHeader(rec) ==
  IF rec.hdr.xUserRole # "" THEN rec.hdr.xUserRole ELSE rec.context.role

\* req.context.role ?? req.headers["x-user-role"]?.toLowerCase(); the header
\* values of the model are in lower case
RoleOrHeader(rec) ==
  IF rec.context.role # "" THEN rec.context.role ELSE rec.hdr.xUserRole

RouteStageKeepsBody(r) ==
  LET rec == Ran(req[r], "route")
      result == resolveModel(rec.body.model, RoleOrHeader(rec))
  IN
  /\ req[r].pc = "route"
  /\ req' = [req EXCEPT ![r] =
       Passed([rec EXCEPT !.context.role = result.role,
                          !.routed = [done |-> TRUE, requestedModel |-> rec.body.model,
                                      resolvedModel |-> result.resolvedModel,
                                      downgraded |-> result.downgraded],
                          !.headers = IF result.downgraded
                                      THEN @ \cup {"X-Model-Downgraded"} ELSE @])]
  /\ UNCHANGED <<config, server, conn, faults, usageVars, keyVars, auditLogs>>

RouteStage(r) ==
  LET rec == Ran(req[r], "route")
      result == resolveModel(rec.body.model, RoleOrHeader(rec))
  IN
  /\ req[r].pc = "route"
  /\ req' = [req EXCEPT ![r] =
       Passed([rec EXCEPT !.body.model = result.resolvedModel,
                          !.context.role = result.role,
                          !.routed = [done |-> TRUE, requestedModel |-> rec.body.model,
                                      resolvedModel |-> result.resolvedModel,
                                      downgraded |-> result.downgraded],
                          !.headers = IF result.downgraded
                                      THEN @ \cup {"X-Model-Downgraded"} ELSE @])]
  /\ UNCHANGED <<config, server, conn, faults, usageVars, keyVars, auditLogs>>

\* sensitiveDataScanner: const result = scanText(promptText), and
\* buildBlockMessage(result.findings) when result.hasHighSeverity
ScanText(r) ==
  /\ req[r].scanned.asked
  /\ ~req[r].scanned.returned
  /\ req' = [req EXCEPT ![r].scanned =
       LET result == scanText(req[r].scanned.text) IN
       [@ EXCEPT !.returned = TRUE, !.result = result,
                 !.message = IF result.hasHighSeverity
                             THEN buildBlockMessage(result.findings) ELSE <<>>]]
  /\ UNCHANGED <<config, server, conn, faults, usageVars, keyVars, auditLogs>>

\* auditSetup: const classification = classify(promptText, source)
Classify(r) ==
  /\ req[r].classification.asked
  /\ ~req[r].classification.returned
  /\ req' = [req EXCEPT ![r].classification =
       [@ EXCEPT !.returned = TRUE,
                 !.result = classify(req[r].classification.prompt,
                                     req[r].classification.source)]]
  /\ UNCHANGED <<config, server, conn, faults, usageVars, keyVars, auditLogs>>

\* auditSetup
AuditStage(r) ==
  LET rec == Ran(req[r], "audit") IN
  /\ req[r].pc = "audit"
  /\ req' = [req EXCEPT ![r] = Passed([rec EXCEPT !.audit = TRUE])]
  /\ UNCHANGED <<config, server, conn, faults, usageVars, keyVars, auditLogs>>

\* what the router's handler checks before it calls the upstream
BodyAccepted(surface, body) ==
  /\ body.shape # "no_messages"
  /\ surface = "messages" => body.shape # "no_max_tokens"

\* the router's handler up to await createMessage / createMessageStream, which
\* it calls with model = body.model || config.anthropic.defaultModel
HandlerStage(r) ==
  /\ req[r].pc = "handler"
  /\ req' = [req EXCEPT ![r] =
       IF BodyAccepted(req[r].surface, req[r].body)
       THEN [Ran(req[r], "upstream") EXCEPT
               !.pc = "upstream",
               !.upstreamModel = IF req[r].body.model # "" THEN req[r].body.model
                                 ELSE config.defaultModel,
               !.sse.flushed = req[r].body.stream,
               !.status = IF req[r].body.stream THEN 200 ELSE 0]
       ELSE Errored(req[r], 400, "invalid_request")]
  /\ UNCHANGED <<config, server, conn, faults, usageVars, keyVars, auditLogs>>

\* next(err) once handleStream has flushed the headers: errorHandler runs, the
\* status line the client has is the 200 already sent and the stream ends
\* without a body
ErroredAfterFlush(rec, code) ==
  [rec EXCEPT !.pc = "done", !.code = code, !.log = Append(@, "error")]

\* what the upstream call can throw: an Anthropic.APIError with the upstream
\* status (0 for one without a status, such as a connection error), or
\* another Error
NO_STATUS == 0

UpstreamStatuses == {NO_STATUS, 400, 401, 429, 500, 529}

UpstreamErrors ==
  {[kind |-> "api", status |-> st] : st \in UpstreamStatuses}
    \cup {[kind |-> "other", status |-> NO_STATUS]}

\* errorHandler for an error that is no AppError
errorHandler(err) ==
  IF err.kind = "api"
  THEN LET status == IF err.status = NO_STATUS THEN 502 ELSE err.status IN
       [status |-> IF status >= 500 THEN 502 ELSE status,
        code |-> CASE status = 401 -> "upstream_auth_error"
                   [] status = 429 -> "rate_limited"
                   [] status = 529 -> "api_overloaded"
                   [] OTHER        -> "upstream_error"]
  ELSE [status |-> 500, code |-> "internal_error"]

UpstreamFailsAnswers(r, err) ==
  /\ req[r].pc \in {"upstream", "streaming"}
  /\ req' = [req EXCEPT ![r] = Errored(req[r], errorHandler(err).status, errorHandler(err).code)]
  /\ UNCHANGED <<config, server, conn, faults, usageVars, keyVars, auditLogs>>

\* the error the upstream call throws (createMessage, createMessageStream or
\* the stream's iterator) reaches errorHandler
UpstreamFails(r, err) ==
  /\ req[r].pc \in {"upstream", "streaming"}
  /\ req' = [req EXCEPT ![r] =
       IF req[r].sse.flushed THEN ErroredAfterFlush(req[r], errorHandler(err).code)
       ELSE Errored(req[r], errorHandler(err).status, errorHandler(err).code)]
  /\ UNCHANGED <<config, server, conn, faults, usageVars, keyVars, auditLogs>>

\* what handleNonStream does once createMessage has returned, in its order
ChatNonStreamTail == <<"usage_scheduled", "audit_scheduled", "response_sent">>

MessagesNonStreamTail == <<"usage_scheduled", "audit_scheduled", "response_sent">>

ChatStreamTailWritesFirst == <<"usage_scheduled", "audit_scheduled", "response_sent">>

ChatStreamTailAuditsTwice ==
  <<"response_sent", "usage_scheduled", "audit_scheduled", "audit_scheduled">>

\* what handleStream does once the stream has ended, in its order
ChatStreamTail == <<"response_sent", "usage_scheduled", "audit_scheduled">>

MessagesStreamTail == <<"response_sent", "usage_scheduled", "audit_scheduled">>

HandlerTail(surface, stream) ==
  CASE surface = "chat" /\ ~stream     -> ChatNonStreamTail
    [] surface = "chat" /\ stream      -> ChatStreamTail
    [] surface = "messages" /\ ~stream -> MessagesNonStreamTail
    [] surface = "messages" /\ stream  -> MessagesStreamTail

\* if (req.context.userId) recordUsage(...); if (req.context.audit) commitAuditLog(...)
Taken(rec, step) ==
  CASE step = "usage_scheduled" -> rec.context.userId # ""
    [] step = "audit_scheduled" -> rec.audit
    [] OTHER                    -> TRUE

TailOf(rec) ==
  SelectSeq(HandlerTail(rec.surface, rec.body.stream), LAMBDA step : Taken(rec, step))

\* the upstream call returns its result with the token usage: the handler
\* schedules the two writes and answers
UpstreamReturns(r, inputTokens, outputTokens) ==
  /\ req[r].pc = "upstream"
  /\ ~req[r].body.stream
  /\ req' = [req EXCEPT ![r] =
       [req[r] EXCEPT !.pc = "done", !.status = 200, !.log = @ \o TailOf(req[r]),
                      !.usageParams =
                         IF req[r].context.userId # ""
                         THEN Recorded(req[r].upstreamModel, inputTokens, outputTokens)
                         ELSE NoRecord,
                      !.auditEntry =
                         IF req[r].audit
                         THEN Recorded(req[r].upstreamModel, inputTokens, outputTokens)
                         ELSE NoRecord,
                      !.auditWrite = IF req[r].audit THEN "scheduled" ELSE "none"]]
  /\ ru' = IF req[r].context.userId # ""
           THEN [ru EXCEPT ![r] = NewCall(req[r].context.userId, inputTokens, outputTokens)]
           ELSE ru
  /\ UNCHANGED <<config, server, conn, faults, tokenUsage, userBudgets, budgetCredits, lastBudget,
                 reads, keyVars, auditLogs>>

\* the usage a stream reports: input_tokens in message_start, output_tokens
\* in message_delta
StreamTokenCounts == {<<1, 1>>}

\* an upstream event: its type, the model of a message_start ("" when the
\* upstream names none), the token count of its usage, whether a
\* content_block_delta is a text_delta, and the delta.stop_reason of a
\* message_delta
StreamEventOf(type, model, tokens, text, stop_reason) ==
  [type |-> type, model |-> model, tokens |-> tokens, text |-> text,
   stop_reason |-> stop_reason]

mapStopReason(reason) ==
  CASE reason \in {"end_turn", "stop_sequence"} -> "stop"
    [] reason = "max_tokens"                    -> "length"
    [] OTHER                                    -> "null"

\* the chunk with delta {} and a finish_reason
FinalChunk(finish_reason) ==
  CASE finish_reason = "stop"   -> "finish_reason:stop"
    [] finish_reason = "length" -> "finish_reason:length"
    [] OTHER                    -> "finish_reason:null"

\* the events the upstream stream of a request of the pipeline delivers
StreamEvents ==
  <<StreamEventOf("message_start", "", 1, FALSE, ""),
    StreamEventOf("content_block_delta", "", 0, TRUE, ""),
    StreamEventOf("message_delta", "", 1, FALSE, "end_turn")>>

PipelineScripts == {StreamEvents}

\* createMessageStream returns a stream that will deliver script: the loop's
\* locals start (streamModel = params.model), the chat handler writes the
\* initial chunk with the role, the messages handler writes nothing yet
StreamOpens(r, script) ==
  /\ req[r].pc = "upstream"
  /\ req[r].body.stream
  /\ req' = [req EXCEPT ![r].pc = "streaming",
                        ![r].sse.script = script,
                        ![r].sse.streamModel = req[r].upstreamModel,
                        ![r].sse.frames = IF req[r].surface = "chat" THEN <<"role">> ELSE <<>>]
  /\ UNCHANGED <<config, server, conn, faults, usageVars, keyVars, auditLogs>>

\* the client goes away while the loop has an event to come (the loop does
\* not look at res.destroyed once the upstream stream has ended)
ClientDisconnects(r) ==
  /\ req[r].pc = "streaming"
  /\ req[r].sse.next <= Len(req[r].sse.script)
  /\ ~req[r].sse.destroyed
  /\ req' = [req EXCEPT ![r].sse.destroyed = TRUE]
  /\ UNCHANGED <<config, server, conn, faults, usageVars, keyVars, auditLogs>>

\* case "message_start" of both loops
MessageStart(sse, event) ==
  [sse EXCEPT !.streamModel = IF event.model # "" THEN event.model ELSE @,
              !.inputTokens = event.tokens]

ChatEventKeepsRequestedModel(sse, event) ==
  CASE event.type = "message_start" -> [sse EXCEPT !.inputTokens = event.tokens]
    [] event.type = "content_block_delta" ->
         IF event.text THEN [sse EXCEPT !.frames = Append(@, "content")] ELSE sse
    [] event.type = "message_delta" ->
         [sse EXCEPT !.outputTokens = event.tokens,
                     !.frames = Append(@, FinalChunk(mapStopReason(event.stop_reason)))]
    [] OTHER -> sse

ChatEventSilentFinish(sse, event) ==
  CASE event.type = "message_start" -> MessageStart(sse, event)
    [] event.type = "content_block_delta" ->
         IF event.text THEN [sse EXCEPT !.frames = Append(@, "content")] ELSE sse
    [] event.type = "message_delta" -> [sse EXCEPT !.outputTokens = event.tokens]
    [] OTHER -> sse

\* the body of the chat handler's loop for one event
ChatEvent(sse, event) ==
  CASE event.type = "message_start" -> MessageStart(sse, event)
    [] event.type = "content_block_delta" ->
         IF event.text THEN [sse EXCEPT !.frames = Append(@, "content")] ELSE sse
    [] event.type = "message_delta" ->
         [sse EXCEPT !.outputTokens = event.tokens,
                     !.frames = Append(@, FinalChunk(mapStopReason(event.stop_reason)))]
    [] OTHER -> sse

\* the body of the messages handler's loop for one event: the event is passed
\* through, then the locals are read from it
MessagesEvent(sse, event) ==
  LET written == [sse EXCEPT !.frames = Append(@, event.type)] IN
  CASE event.type = "message_start" -> MessageStart(written, event)
    [] event.type = "message_delta" -> [written EXCEPT !.outputTokens = event.tokens]
    [] OTHER -> written

\* one turn of for await (const event of stream) with the client still there
StreamEvent(r) ==
  LET sse == req[r].sse
      event == sse.script[sse.next]
      handled == IF req[r].surface = "chat" THEN ChatEvent(sse, event)
                 ELSE MessagesEvent(sse, event)
  IN /\ req[r].pc = "streaming"
     /\ sse.next <= Len(sse.script)
     /\ ~sse.destroyed
     /\ req' = [req EXCEPT ![r].sse = [handled EXCEPT !.next = @ + 1]]
     /\ UNCHANGED <<config, server, conn, faults, usageVars, keyVars, auditLogs>>

\* what the chat handler writes once its loop is left, before res.end()
ChatTerminalFrames == <<"[DONE]">>

\* the messages handler calls res.end() only
MessagesTerminalFrames == <<>>

TerminalFrames(rec) ==
  IF rec.surface = "chat" THEN ChatTerminalFrames ELSE MessagesTerminalFrames

\* handleStream after its loop: the terminal frame, res.end(), then
\* recordUsage and commitAuditLog with the counters the loop has read
StreamFinished(r, left) ==
  /\ req' = [req EXCEPT ![r] =
       [left EXCEPT !.pc = "done",
                    !.sse.frames = @ \o TerminalFrames(left),
                    !.log = @ \o TailOf(left),
                    !.usageParams =
                       IF left.context.userId # ""
                       THEN Recorded(left.sse.streamModel, left.sse.inputTokens,
                                     left.sse.outputTokens)
                       ELSE NoRecord,
                    !.auditEntry =
                       IF left.audit
                       THEN Recorded(left.sse.streamModel, left.sse.inputTokens,
                                     left.sse.outputTokens)
                       ELSE NoRecord,
                    !.auditWrite = IF left.audit THEN "scheduled" ELSE "none"]]
  /\ ru' = IF left.context.userId # ""
           THEN [ru EXCEPT ![r] = NewCall(left.context.userId, left.sse.inputTokens,
                                          left.sse.outputTokens)]
           ELSE ru
  /\ UNCHANGED <<config, server, conn, faults, tokenUsage, userBudgets, budgetCredits, lastBudget,
                 reads, keyVars, auditLogs>>

\* a turn of the loop finds res.destroyed: stream.controller.abort(), break,
\* and the handler goes on after the loop
StreamAborts(r) ==
  /\ req[r].pc = "streaming"
  /\ req[r].sse.next <= Len(req[r].sse.script)
  /\ req[r].sse.destroyed
  /\ StreamFinished(r, [req[r] EXCEPT !.sse.aborted = TRUE,
                                      !.sse.observedAt = Len(req[r].sse.frames)])

\* the upstream stream ends: the loop is left without another look at
\* res.destroyed
StreamEnds(r) ==
  /\ req[r].pc = "streaming"
  /\ req[r].sse.next > Len(req[r].sse.script)
  /\ StreamFinished(r, req[r])

AuditRow(r) == [request_id |-> r, user_id |-> req[r].context.userId, status |-> "success"]

\* commitAuditLog: the log line, then INSERT INTO audit_logs through the pool;
\* a failure is logged and goes no further
commitAuditLog(r, c) ==
  /\ req[r].auditWrite = "scheduled"
  /\ config.databaseUrl => Available(c)
  /\ req' = [req EXCEPT ![r].auditWrite = "done"]
  /\ \/ /\ ~config.databaseUrl
        /\ UNCHANGED <<conn, faults, auditLogs>>
     \/ /\ config.databaseUrl
        /\ conn[c].aborted
        /\ conn' = [conn EXCEPT ![c].st = "idle"]
        /\ UNCHANGED <<faults, auditLogs>>
     \/ /\ config.databaseUrl
        /\ ~conn[c].aborted
        /\ faults < MaxFaults
        /\ faults' = faults + 1
        /\ conn' = [conn EXCEPT ![c] = [Failed(conn[c]) EXCEPT !.st = "idle"]]
        /\ UNCHANGED auditLogs
     \/ /\ config.databaseUrl
        /\ ~conn[c].aborted
        /\ conn' = [conn EXCEPT ![c] =
              [conn[c] EXCEPT !.st = "idle",
                              !.audits = IF conn[c].tx THEN @ \cup {AuditRow(r)} ELSE @]]
        /\ auditLogs' = IF conn[c].tx THEN auditLogs ELSE auditLogs \cup {AuditRow(r)}
        /\ UNCHANGED faults
  /\ UNCHANGED <<config, server, usageVars, keyVars>>

\* GET /v1/budget/:userId and GET /v1/budget/admin/summary, behind modelRouter
BudgetSurfaces == {"budget", "budget_summary"}

\* target is req.params.userId (none for the summary)
ReceiveBudget(r, surface, token, hdr, target) ==
  /\ req[r].pc = "idle"
  /\ server.accepting
  /\ \A i \in 1..(r - 1) : req[i].pc # "idle"
  /\ surface = "budget_summary" => target = ""
  /\ surface = "budget" => target # ""
  /\ req' = [req EXCEPT ![r] =
       [IdleRequest EXCEPT !.pc = Chain(surface)[1], !.surface = surface, !.token = token,
                           !.hdr = hdr, !.target = target,
                           !.context = [NoContext EXCEPT !.userId = hdr.xUserId,
                                                         !.userEmail = hdr.xUserEmail]]]
  /\ UNCHANGED <<config, server, conn, faults, usageVars, keyVars, auditLogs>>

\* res.json(...) of a handler
Answered(rec, disclosed) ==
  [rec EXCEPT !.pc = "done", !.status = 200, !.disclosed = disclosed,
              !.log = Append(@, "response_sent")]

\* the rows a store read on connection c returns or fails to return
StoreRead(r, c, rec, disclosed) ==
  /\ config.databaseUrl => Available(c)
  /\ req' = [req EXCEPT ![r] =
       IF config.databaseUrl /\ conn[c].aborted THEN Errored(rec, 500, "internal_error")
       ELSE Answered(rec, disclosed)]
  /\ conn' = IF config.databaseUrl THEN [conn EXCEPT ![c].st = "idle"] ELSE conn

BudgetReadAnyUser(r, c) ==
  LET rec == Ran(req[r], "budget_read") IN
  /\ req[r].pc = "budget_handler"
  /\ StoreRead(r, c, rec, {rec.target})
  /\ UNCHANGED <<config, server, faults, usageVars, keyVars, auditLogs>>

\* budgetRouter.get("/:userId"): the caller's own budget, or any for an admin
BudgetRead(r, c) ==
  LET rec == Ran(req[r], "budget_read")
      callerRole == rec.context.role
      callerId == rec.context.userId
  IN
  /\ req[r].pc = "budget_handler"
  /\ IF callerRole # "admin" /\ callerId # rec.target
     THEN /\ req' = [req EXCEPT ![r] = Errored(rec, 403, "forbidden")]
          /\ UNCHANGED conn
     ELSE StoreRead(r, c, rec, {rec.target})
  /\ UNCHANGED <<config, server, faults, usageVars, keyVars, auditLogs>>

\* getAllBudgets: [] without a pool, else the rows of user_budgets
AllBudgets == IF config.databaseUrl THEN {u \in UserIds : userBudgets[u].exists} ELSE {}

\* the role and monthly_limit recordUsage's INSERT writes with a new row of
\* user_budgets (role = DEFAULT_ROLE, monthly_limit = null, which is 0 here as
\* in ROLE_DEFINITIONS); its ON CONFLICT update sets current_usage only
UpsertedColumns == [role |-> DEFAULT_ROLE, monthly_limit |-> 0]

\* the BudgetStatus getAllBudgets returns for the row of user u
BudgetStatusOfRow(u) ==
  LET monthlyLimit == UpsertedColumns.monthly_limit
      currentUsage == userBudgets[u].current_usage
      ev == evaluateBudget(currentUsage, monthlyLimit)
  IN [userId |-> u, role |-> UpsertedColumns.role, monthlyLimit |-> monthlyLimit,
      currentUsage |-> currentUsage, exceeded |-> ev.exceeded,
      warningThreshold |-> ev.warningThreshold]

getAllBudgets == {BudgetStatusOfRow(u) : u \in AllBudgets}

\* budgetRouter.get("/admin/summary")
SummaryRead(r, c) ==
  LET rec == Ran(req[r], "summary_read") IN
  /\ req[r].pc = "summary_handler"
  /\ IF rec.context.role # "admin"
     THEN /\ req' = [req EXCEPT ![r] = Errored(rec, 403, "forbidden")]
          /\ UNCHANGED conn
     ELSE StoreRead(r, c, rec, AllBudgets)
  /\ UNCHANGED <<config, server, faults, usageVars, keyVars, auditLogs>>

\* the last_used_at update lookupKeyByHash dispatched for the key of request
\* r: pool.query(UPDATE ...).catch(log)
TouchRequestKey(r, c) ==
  LET id == req[r].context.apiKeyId IN
  /\ req[r].bg.touch = "pending"
  /\ Available(c)
  /\ \/ /\ conn[c].aborted
        /\ req' = [req EXCEPT ![r].bg.touch = "failed"]
        /\ conn' = [conn EXCEPT ![c].st = "idle"]
        /\ UNCHANGED <<apiKeys, faults>>
     \/ /\ ~conn[c].aborted
        /\ faults < MaxFaults
        /\ faults' = faults + 1
        /\ req' = [req EXCEPT ![r].bg.touch = "failed"]
        /\ conn' = [conn EXCEPT ![c] = [Failed(conn[c]) EXCEPT !.st = "idle"]]
        /\ UNCHANGED apiKeys
     \/ /\ ~conn[c].aborted
        /\ ~KeyLockedByOther(c, id)
        /\ req' = [req EXCEPT ![r].bg.touch = "done"]
        /\ conn' = [conn EXCEPT ![c] =
              [WriteKeyConn(c, id, Touched(KeyView(c, id))) EXCEPT !.st = "idle"]]
        /\ apiKeys' = WriteKeyTable(c, id, Touched(KeyView(c, id)))
        /\ UNCHANGED faults
  /\ UNCHANGED <<config, server, usageVars, keySeq, rot, lastResp, auditLogs>>

\* upsertUserProfile(...).catch(() => {}) of authenticateJwt: nothing without
\* a pool, else INSERT INTO user_profiles ... ON CONFLICT DO UPDATE, whose
\* failure is logged
UpsertProfile(r, c) ==
  /\ req[r].bg.upsert = "pending"
  /\ config.databaseUrl => Available(c)
  /\ \/ /\ ~config.databaseUrl
        /\ req' = [req EXCEPT ![r].bg.upsert = "skipped"]
        /\ UNCHANGED <<conn, faults>>
     \/ /\ config.databaseUrl
        /\ conn[c].aborted
        /\ req' = [req EXCEPT ![r].bg.upsert = "failed"]
        /\ conn' = [conn EXCEPT ![c].st = "idle"]
        /\ UNCHANGED faults
     \/ /\ config.databaseUrl
        /\ ~conn[c].aborted
        /\ faults < MaxFaults
        /\ faults' = faults + 1
        /\ req' = [req EXCEPT ![r].bg.upsert = "failed"]
        /\ conn' = [conn EXCEPT ![c] = [Failed(conn[c]) EXCEPT !.st = "idle"]]
     \/ /\ config.databaseUrl
        /\ ~conn[c].aborted
        /\ req' = [req EXCEPT ![r].bg.upsert = "done"]
        /\ conn' = [conn EXCEPT ![c].st = "idle"]
        /\ UNCHANGED faults
  /\ UNCHANGED <<config, server, usageVars, keyVars, auditLogs>>

\* how publishAlert ends: the SNS send succeeds or fails (the failure is
\* logged), or no topic is configured and the alert is written to the log
PublishOutcomes == {"published", "failed", "logged"}

PublishAlertRethrows(r, outcome) ==
  /\ req[r].bg.publish = "pending"
  /\ req' = [req EXCEPT ![r] =
       IF outcome = "failed"
       THEN Errored([req[r] EXCEPT !.bg.publish = outcome], 500, "internal_error")
       ELSE [req[r] EXCEPT !.bg.publish = outcome]]
  /\ UNCHANGED <<config, server, conn, faults, usageVars, keyVars, auditLogs>>

PublishAlert(r, outcome) ==
  /\ req[r].bg.publish = "pending"
  /\ req' = [req EXCEPT ![r].bg.publish = outcome]
  /\ UNCHANGED <<config, server, conn, faults, usageVars, keyVars, auditLogs>>

\* ---------------------------------------------------------------- specifications
Configs ==
  [authMode : {"mock", "oidc"}, budgetEnforcement : {"soft", "hard", "none"},
   databaseUrl : BOOLEAN, defaultModel : {DefaultModel}]


\* ---------------------------------------------------------------- index.ts: shutdown
\* a request whose connection is open: received and not yet answered
InFlight(r) == req[r].pc \notin {"idle", "done"}

Signals == {"SIGTERM", "SIGINT"}

\* closePool: pool.end() closes the idle clients; a client that is checked out
\* is closed when it is released
PoolEnding == [c \in Conns |-> IF conn[c].st = "idle" THEN ClosedConn ELSE conn[c]]

\* process.on(signal): shutdown. server.close stops the listener and keeps the
\* callback for the 'close' event; the 10 s timer is armed
shutdown(signal) ==
  /\ signal \in Signals
  /\ server.exited = "no"
  /\ server.signals < MaxSignals
  /\ server' = [server EXCEPT !.accepting = FALSE, !.signals = @ + 1]
  /\ UNCHANGED <<config, conn, faults, usageVars, keyVars, pipeVars>>

ServerClosedUndrained ==
  /\ server.exited = "no"
  /\ server.signals > 0
  /\ ~server.poolClosed
  /\ server' = [server EXCEPT !.poolClosed = TRUE]
  /\ conn' = PoolEnding
  /\ UNCHANGED <<config, faults, usageVars, keyVars, pipeVars>>

\* the 'close' event of the server, emitted when the listener is closed and
\* every connection has ended: the callback of server.close calls closePool
ServerClosed ==
  /\ server.exited = "no"
  /\ server.signals > 0
  /\ ~server.poolClosed
  /\ \A r \in Requests : ~InFlight(r)
  /\ server' = [server EXCEPT !.poolClosed = TRUE]
  /\ conn' = PoolEnding
  /\ UNCHANGED <<config, faults, usageVars, keyVars, pipeVars>>

\* pool.end() has resolved (every client is closed): process.exit(0)
ExitAfterClose ==
  /\ server.exited = "no"
  /\ server.poolClosed
  /\ \A c \in Conns : conn[c].st # "busy"
  /\ server' = [server EXCEPT !.exited = "0"]
  /\ conn' = [c \in Conns |-> ClosedConn]
  /\ UNCHANGED <<config, faults, usageVars, keyVars, pipeVars>>

\* the timer armed by shutdown fires: process.exit(1), whatever is in flight
ForcedExit ==
  /\ server.exited = "no"
  /\ server.signals > 0
  /\ server' = [server EXCEPT !.exited = "1"]
  /\ UNCHANGED <<config, conn, faults, usageVars, keyVars, pipeVars>>

\* the store of a fresh deployment: empty tables, no client opened yet
InitTables ==
  /\ apiKeys = [id \in KeyIds |-> NoKey]
  /\ keySeq = 0
  /\ rot = [j \in Rotations |-> IdleRotation]
  /\ lastResp = Answer("none", 0, "", 0)
  /\ conn = [c \in Conns |-> ClosedConn]
  /\ tokenUsage = {}
  /\ userBudgets = [u \in UserIds |-> [exists |-> FALSE, current_usage |-> 0]]
  /\ budgetCredits = {}
  /\ ru = [k \in Calls |-> IdleCall]
  /\ lastBudget = [ok |-> FALSE, userId |-> "", role |-> DEFAULT_ROLE, currentUsage |-> 0,
                   exceeded |-> FALSE, warningThreshold |-> FALSE,
                   settled |-> FALSE, expected |-> 0]
  /\ reads = 0
  /\ faults = 0
  /\ auditLogs = {}

\* no request has arrived
InitStore ==
  /\ InitTables
  /\ req = [r \in Requests |-> IdleRequest]

\* a store in use: bo has spent a business budget, ana four fifths of an
\* engineer's
SeededUsage ==
  {[user_id |-> "bo", call |-> 0, input_tokens |-> 200000, output_tokens |-> 0],
   [user_id |-> "ana", call |-> 0, input_tokens |-> 400000, output_tokens |-> 0]}

InitPipeline ==
  /\ server = Listening
  /\ config \in Configs
  /\ apiKeys = [id \in KeyIds |-> NoKey]
  /\ keySeq = 0
  /\ rot = [j \in Rotations |-> IdleRotation]
  /\ lastResp = Answer("none", 0, "", 0)
  /\ conn = [c \in Conns |-> ClosedConn]
  /\ tokenUsage = SeededUsage
  /\ userBudgets = [u \in UserIds |->
       IF \E row \in SeededUsage : row.user_id = u
       THEN [exists |-> TRUE,
             current_usage |-> LET row == CHOOSE x \in SeededUsage : x.user_id = u
                               IN row.input_tokens + row.output_tokens]
       ELSE [exists |-> FALSE, current_usage |-> 0]]
  /\ budgetCredits = {}
  /\ ru = [k \in Calls |-> IdleCall]
  /\ lastBudget = [ok |-> FALSE, userId |-> "", role |-> DEFAULT_ROLE, currentUsage |-> 0,
                   exceeded |-> FALSE, warningThreshold |-> FALSE,
                   settled |-> FALSE, expected |-> 0]
  /\ reads = 0
  /\ faults = 0
  /\ req = [r \in Requests |-> IdleRequest]
  /\ auditLogs = {}

InitUsage ==
  /\ server = Listening
  /\ config = [authMode |-> "mock", budgetEnforcement |-> "soft", databaseUrl |-> TRUE,
               defaultModel |-> DefaultModel]
  /\ InitStore

InitKeys ==
  /\ server = Listening
  /\ config \in {g \in Configs : g.budgetEnforcement = "soft"}
  /\ InitStore

NextUsage ==
  \/ \E k \in Calls, u \in Users, t \in TokenCounts :
       StartRecordUsage(k, u, t[1], t[2])
  \/ \E k \in Calls, c \in Conns : RuIssue(k, c)
  \/ \E k \in Calls : RuBegin(k)
  \/ \E k \in Calls : RuInsert(k)
  \/ \E k \in Calls : RuUpsert(k)
  \/ \E k \in Calls : RuCommit(k)
  \/ \E k \in Calls : RuRollback(k)
  \/ \E u \in Users, c \in Conns : getUserBudget(u, DEFAULT_ROLE, c)

SpecUsage == InitUsage /\ [][NextUsage]_vars

\* the requests of the key-management surface: an admin's, and one of each
\* rejected kind (a caller who is no admin, a role that does not exist)
NextKeys ==
  \/ \E e \in Emails, k \in RawKeys, c \in Conns : CreateKey("admin", e, "business", k, c)
  \/ \E callerRole \in NonAdminCallers, r \in {"business", "guest"} :
       CreateKey(IF r = "guest" THEN "admin" ELSE callerRole, <<"ana", "dynamo.works">>, r, 1, 1)
  \/ \E id \in KeyIds, c \in Conns : RevokeKey("admin", id, c)
  \/ \E callerRole \in NonAdminCallers : RevokeKey(callerRole, 1, 1)
  \/ \E c \in Conns : ListKeys("admin", c)
  \/ \E callerRole \in NonAdminCallers : ListKeys(callerRole, 1)
  \/ \E j \in Rotations, id \in KeyIds, c \in Conns : RotateStart(j, "admin", id, c)
  \/ \E j \in Rotations, callerRole \in NonAdminCallers : RotateStart(j, callerRole, 1, 1)
  \/ \E j \in Rotations : RotateBegin(j)
  \/ \E j \in Rotations : RotateSelect(j)
  \/ \E j \in Rotations : RotateNotFound(j)
  \/ \E j \in Rotations : RotateUpdate(j)
  \/ \E j \in Rotations, k \in RawKeys : RotateInsert(j, k)
  \/ \E j \in Rotations : RotateCommit(j)
  \/ \E j \in Rotations : RotateRollback(j)
  \/ \E j \in Rotations : RotateRelease(j)
  \/ \E t \in ApiKeyTokens, c \in Conns : Authenticate(t, NoHeaders, c)
  \/ \E id \in KeyIds, c \in Conns : TouchLastUsed(id, c)

SpecKeys == InitKeys /\ [][NextKeys]_vars

Next ==
  \/ \E r \in Requests :
       /\ req[r].pc = "idle"
       /\ \E surface \in Surfaces, token \in PipelineTokens, hdr \in HeaderCases, body \in Bodies :
            Receive(r, surface, token, hdr, body) /\ HeadersRead(token, hdr)
  \/ \E r \in Requests, c \in Conns : AuthStage(r, c)
  \/ \E r \in Requests : ScanStage(r)
  \/ \E r \in Requests, c \in Conns : BudgetStage(r, c)
  \/ \E r \in Requests : RouteStage(r)
  \/ \E r \in Requests : AuditStage(r)
  \/ \E r \in Requests : HandlerStage(r)
  \/ \E r \in Requests, err \in UpstreamErrors : UpstreamFails(r, err)
  \/ \E r \in Requests, t \in TokenCounts : UpstreamReturns(r, t[1], t[2])
  \/ \E r \in Requests, script \in PipelineScripts : StreamOpens(r, script)
  \/ \E r \in Requests : ClientDisconnects(r)
  \/ \E r \in Requests : StreamEvent(r)
  \/ \E r \in Requests : StreamAborts(r)
  \/ \E r \in Requests : StreamEnds(r)
  \/ \E r \in Requests, c \in Conns : commitAuditLog(r, c)
  \/ \E k \in Calls, c \in Conns : RuIssue(k, c)
  \/ \E k \in Calls : RuBegin(k)
  \/ \E k \in Calls : RuInsert(k)
  \/ \E k \in Calls : RuUpsert(k)
  \/ \E k \in Calls : RuCommit(k)
  \/ \E k \in Calls : RuRollback(k)

Spec == InitPipeline /\ [][Next]_vars

\* resolveModel over its inputs: a request at the router whose body asks for a
\* model of the catalog, for one that is not, or for none, from a caller whose
\* role is one of the four, another string, or absent, under each default model
UNKNOWN_MODEL == "claude-ultra-9000"

RequestedModels == Models \cup {UNKNOWN_MODEL, ""}

RoleInputs == Roles \cup {"intern", ""}

InitRoute ==
  /\ server = Listening
  /\ config \in [authMode : {"mock"}, budgetEnforcement : {"soft"}, databaseUrl : {FALSE},
                  defaultModel : Models \cup {UNKNOWN_MODEL}]
  /\ InitTables
  /\ \E surface \in Surfaces, model \in RequestedModels, role \in RoleInputs :
       req = [r \in Requests |->
                IF r = 1
                THEN [IdleRequest EXCEPT !.pc = "route", !.surface = surface,
                                         !.body.model = model,
                                         !.context = [NoContext EXCEPT !.userId = "ana",
                                                                       !.role = role,
                                                                       !.authMethod = "mock"],
                                         !.log = <<"auth", "scan", "budget">>]
                ELSE IdleRequest]

NextRoute == \E r \in Requests : RouteStage(r)

SpecRoute == InitRoute /\ [][NextRoute]_vars

\* authenticateJwt over its inputs: a request at the auth middleware in oidc
\* mode with a verified token whose groups are any of the four recognized
\* groups and one that is not, and whose role claim is absent, a role, or
\* another string
OTHER_GROUP == "Finance-Users"

VerifiedTokens ==
  {[kind |-> "jwt", valid |-> TRUE, sub |-> "ana", email |-> <<"ana", "dynamo.works">>,
    groups |-> g, role |-> role] :
     g \in SUBSET {"AI-Platform-Admins", "AI-Platform-Engineers", "AI-Platform-Power",
                   "AI-Platform-Business", OTHER_GROUP},
     role \in {"", "admin", "engineer", "intern"}}

InitJwt ==
  /\ server = Listening
  /\ config = [authMode |-> "oidc", budgetEnforcement |-> "soft", databaseUrl |-> FALSE,
               defaultModel |-> DefaultModel]
  /\ InitTables
  /\ \E surface \in Surfaces, token \in VerifiedTokens :
       req = [r \in Requests |->
                IF r = 1
                THEN [IdleRequest EXCEPT !.pc = "auth", !.surface = surface, !.token = token]
                ELSE IdleRequest]

NextJwt == \E r \in Requests, c \in Conns : AuthStage(r, c)

SpecJwt == InitJwt /\ [][NextJwt]_vars

\* handleStream over the streams the upstream can deliver: a streaming request
\* of either surface that is about to call createMessageStream, and a stream
\* that starts with message_start and goes on with up to MaxStreamBody events
MaxStreamBody == 3

ReportedModels == {"", HAIKU}

StartEvents ==
  {StreamEventOf("message_start", m, i, FALSE, "") : m \in ReportedModels, i \in 1..MaxTokens}

\* the usage and the stop reason of the message_delta events
MessageDeltas ==
  {<<1, "end_turn">>, <<2, "max_tokens">>, <<1, "tool_use">>, <<2, "stop_sequence">>}

BodyEvents ==
  {StreamEventOf("content_block_delta", "", 0, TRUE, ""),
   StreamEventOf("content_block_delta", "", 0, FALSE, ""),
   StreamEventOf("message_stop", "", 0, FALSE, "")}
    \cup {StreamEventOf("message_delta", "", d[1], FALSE, d[2]) : d \in MessageDeltas}

BodySeqs == UNION {[1..n -> BodyEvents] : n \in 0..MaxStreamBody}

Scripts == {<<s>> \o b : s \in StartEvents, b \in BodySeqs}

InitStream ==
  /\ server = Listening
  /\ config = [authMode |-> "mock", budgetEnforcement |-> "soft", databaseUrl |-> FALSE,
               defaultModel |-> DefaultModel]
  /\ InitTables
  /\ \E surface \in Surfaces, audit \in BOOLEAN :
       req = [r \in Requests |->
                IF r = 1
                THEN [IdleRequest EXCEPT
                        !.pc = "upstream", !.surface = surface,
                        !.body = [NoBody EXCEPT !.stream = TRUE, !.model = SONNET],
                        !.context = [NoContext EXCEPT !.userId = "ana", !.role = "engineer",
                                                      !.authMethod = "mock"],
                        !.audit = audit,
                        !.upstreamModel = SONNET,
                        !.sse.flushed = TRUE,
                        !.status = 200,
                        !.log = IF audit
                                THEN <<"auth", "scan", "budget", "route", "audit", "upstream">>
                                ELSE <<"auth", "scan", "budget", "route", "upstream">>]
                ELSE IdleRequest]

\* what the iterator of an open stream throws: the upstream is overloaded, or
\* the connection is lost
StreamErrors == {err \in UpstreamErrors : err.status = 529 \/ err.kind = "other"}

NextStream ==
  \/ \E r \in Requests :
       /\ req[r].pc = "upstream"
       /\ \E script \in Scripts : StreamOpens(r, script)
  \/ \E r \in Requests : ClientDisconnects(r)
  \/ \E r \in Requests : StreamEvent(r)
  \/ \E r \in Requests : StreamAborts(r)
  \/ \E r \in Requests : StreamEnds(r)
  \/ \E r \in Requests, err \in StreamErrors : UpstreamFails(r, err)

SpecStream == InitStream /\ [][NextStream]_vars

\* the pipeline with the writes its middleware dispatch: a store with one
\* active key of ana, oidc mode, requests that present that key or a verified
\* token and whose prompt has a medium-severity finding
AnaKey ==
  [exists |-> TRUE, user_id |-> "ana", user_email |-> <<"ana", "dynamo.works">>,
   key_hash |-> hashKey(1), role |-> "engineer", is_active |-> TRUE, revoked_at |-> 0]

WritesTokens ==
  {[kind |-> "api_key", wellFormed |-> TRUE, raw |-> 1],
   [kind |-> "jwt", valid |-> TRUE, sub |-> "ana", email |-> <<"ana", "dynamo.works">>,
    groups |-> {}, role |-> "engineer"]}

WritesBodies ==
  {[scan |-> {"medium"}, shape |-> "ok", stream |-> st, model |-> ""] : st \in BOOLEAN}

InitWrites ==
  /\ server = Listening
  /\ config = [authMode |-> "oidc", budgetEnforcement |-> "soft", databaseUrl |-> TRUE,
               defaultModel |-> DefaultModel]
  /\ apiKeys = [id \in KeyIds |-> IF id = 1 THEN AnaKey ELSE NoKey]
  /\ keySeq = 1
  /\ rot = [j \in Rotations |-> IdleRotation]
  /\ lastResp = Answer("none", 0, "", 0)
  /\ conn = [c \in Conns |-> ClosedConn]
  /\ tokenUsage = {}
  /\ userBudgets = [u \in UserIds |-> [exists |-> FALSE, current_usage |-> 0]]
  /\ budgetCredits = {}
  /\ ru = [k \in Calls |-> IdleCall]
  /\ lastBudget = [ok |-> FALSE, userId |-> "", role |-> DEFAULT_ROLE, currentUsage |-> 0,
                   exceeded |-> FALSE, warningThreshold |-> FALSE,
                   settled |-> FALSE, expected |-> 0]
  /\ reads = 0
  /\ faults = 0
  /\ auditLogs = {}
  /\ req = [r \in Requests |-> IdleRequest]

\* the steps of the pipeline and of its handlers
PipelineStep(r) ==
  \/ /\ req[r].pc = "idle"
     /\ \E surface \in Surfaces, token \in WritesTokens, body \in WritesBodies :
          Receive(r, surface, token, NoHeaders, body)
  \/ \E c \in Conns : AuthStage(r, c)
  \/ ScanStage(r)
  \/ \E c \in Conns : BudgetStage(r, c)
  \/ RouteStage(r)
  \/ AuditStage(r)
  \/ HandlerStage(r)
  \/ \E t \in StreamTokenCounts : UpstreamReturns(r, t[1], t[2])
  \/ \E script \in PipelineScripts : StreamOpens(r, script)
  \/ StreamEvent(r)
  \/ StreamEnds(r)

\* the steps of the writes nothing waits for
WriteStep(r) ==
  \/ \E c \in Conns : TouchRequestKey(r, c)
  \/ \E c \in Conns : UpsertProfile(r, c)
  \/ \E outcome \in PublishOutcomes : PublishAlert(r, outcome)
  \/ \E c \in Conns : commitAuditLog(r, c)
  \/ \E c \in Conns : RuIssue(r, c)
  \/ RuBegin(r)
  \/ RuInsert(r)
  \/ RuUpsert(r)
  \/ RuCommit(r)
  \/ RuRollback(r)

NextWrites == \E r \in Requests : PipelineStep(r) \/ WriteStep(r)

SpecWrites == InitWrites /\ [][NextWrites]_vars

\* hard enforcement: requests of bo, a business user whose counter is one
\* answer short of the limit, in flight together; the store does not fail
Flights == 1..MaxFlights

BoHeaders ==
  [xUserId |-> "bo", xUserEmail |-> NoEmail, xUserRole |-> "engineer",
   xMockEmail |-> <<"bo", "dynamo.works">>, xMockRole |-> "business"]

NearLimit == getMonthlyBudget("business") - 2

InitEnforce ==
  /\ server = Listening
  /\ config = [authMode |-> "mock", budgetEnforcement |-> "hard", databaseUrl |-> TRUE,
               defaultModel |-> DefaultModel]
  /\ apiKeys = [id \in KeyIds |-> NoKey]
  /\ keySeq = 0
  /\ rot = [j \in Rotations |-> IdleRotation]
  /\ lastResp = Answer("none", 0, "", 0)
  /\ conn = [c \in Conns |-> ClosedConn]
  /\ tokenUsage = {[user_id |-> "bo", call |-> 0, input_tokens |-> NearLimit, output_tokens |-> 0]}
  /\ userBudgets = [u \in UserIds |->
       IF u = "bo" THEN [exists |-> TRUE, current_usage |-> NearLimit]
       ELSE [exists |-> FALSE, current_usage |-> 0]]
  /\ budgetCredits = {}
  /\ ru = [k \in Flights |-> IdleCall]
  /\ lastBudget = [ok |-> FALSE, userId |-> "", role |-> DEFAULT_ROLE, currentUsage |-> 0,
                   exceeded |-> FALSE, warningThreshold |-> FALSE,
                   settled |-> FALSE, expected |-> 0]
  /\ reads = 0
  /\ faults = MaxFaults
  /\ req = [r \in Flights |-> IdleRequest]
  /\ auditLogs = {}

NextEnforce ==
  \/ \E r \in Flights :
       /\ req[r].pc = "idle"
       /\ \E surface \in Surfaces : Receive(r, surface, [kind |-> "none"], BoHeaders, NoBody)
  \/ \E r \in Flights, c \in Conns : AuthStage(r, c)
  \/ \E r \in Flights : ScanStage(r)
  \/ \E r \in Flights, c \in Conns : BudgetStage(r, c)
  \/ \E r \in Flights : RouteStage(r)
  \/ \E r \in Flights : AuditStage(r)
  \/ \E r \in Flights : HandlerStage(r)
  \/ \E r \in Flights, t \in StreamTokenCounts : UpstreamReturns(r, t[1], t[2])
  \/ \E k \in Flights, c \in Conns : RuIssue(k, c)
  \/ \E k \in Flights : RuBegin(k)
  \/ \E k \in Flights : RuInsert(k)
  \/ \E k \in Flights : RuUpsert(k)
  \/ \E k \in Flights : RuCommit(k)

SpecEnforce == InitEnforce /\ [][NextEnforce]_vars

\* token mode: requests that present the key of ana or a verified token, with
\* every case of the identity headers, to the proxy and to the budget routes
HeaderTokens ==
  {t \in PipelineTokens : IF t.kind = "jwt" THEN t.valid
                          ELSE t.kind = "api_key" /\ t.wellFormed}

HeaderBodies == {[NoBody EXCEPT !.model = m, !.scan = {"medium"}] : m \in {"", OPUS}}

NextHeaders ==
  \/ \E r \in Requests :
       /\ req[r].pc = "idle"
       /\ \E surface \in Surfaces, token \in HeaderTokens, hdr \in HeaderCases,
             body \in HeaderBodies : Receive(r, surface, token, hdr, body)
  \/ \E r \in Requests :
       /\ req[r].pc = "idle"
       /\ \E token \in HeaderTokens, hdr \in HeaderCases, target \in Users :
            ReceiveBudget(r, "budget", token, hdr, target)
  \/ \E r \in Requests :
       /\ req[r].pc = "idle"
       /\ \E token \in HeaderTokens, hdr \in HeaderCases :
            ReceiveBudget(r, "budget_summary", token, hdr, "")
  \/ \E r \in Requests, c \in Conns : AuthStage(r, c)
  \/ \E r \in Requests : ScanStage(r)
  \/ \E r \in Requests, c \in Conns : BudgetStage(r, c)
  \/ \E r \in Requests : RouteStage(r)
  \/ \E r \in Requests : AuditStage(r)
  \/ \E r \in Requests : HandlerStage(r)
  \/ \E r \in Requests, t \in StreamTokenCounts : UpstreamReturns(r, t[1], t[2])
  \/ \E r \in Requests, c \in Conns : BudgetRead(r, c)
  \/ \E r \in Requests, c \in Conns : SummaryRead(r, c)
  \/ \E r \in Requests : WriteStep(r)

SpecHeaders == InitWrites /\ [][NextHeaders]_vars

\* the same requests and writes in a process that receives signals; a process
\* that has exited takes no step
NextShutdown ==
  \/ /\ server.exited = "no"
     /\ \E r \in Requests : PipelineStep(r)
  \/ /\ server.exited = "no"
     /\ \E r \in Requests : WriteStep(r)
  \/ \E signal \in Signals : shutdown(signal)
  \/ ServerClosed
  \/ ExitAfterClose
  \/ ForcedExit

SpecShutdown == InitWrites /\ [][NextShutdown]_vars

\* evaluateBudget on every usage and limit of the bounds, from a user who has
\* used nothing
InitEvaluate ==
  /\ server = Listening
  /\ config = [authMode |-> "mock", budgetEnforcement |-> "soft", databaseUrl |-> TRUE,
               defaultModel |-> DefaultModel]
  /\ req = [r \in Requests |-> IdleRequest]
  /\ apiKeys = [id \in KeyIds |-> NoKey]
  /\ keySeq = 0
  /\ rot = [j \in Rotations |-> IdleRotation]
  /\ lastResp = Answer("none", 0, "", 0)
  /\ conn = [c \in Conns |-> ClosedConn]
  /\ tokenUsage = {}
  /\ userBudgets = [u \in UserIds |-> [exists |-> FALSE, current_usage |-> 0]]
  /\ budgetCredits = {}
  /\ ru = [k \in Calls |-> IdleCall]
  /\ reads = 0
  /\ faults = 0
  /\ auditLogs = {}
  /\ \E monthlyLimit \in Limits : lastBudget = Unevaluated(0, monthlyLimit)

NextEvaluate ==
  \/ Evaluate
  \/ \E currentUsage \in UsedValues, monthlyLimit \in Limits :
       CallEvaluate(currentUsage, monthlyLimit)

SpecEvaluate == InitEvaluate /\ [][NextEvaluate]_vars

\* calls racing on one key: rotations of the active key 1 of ana, and one
\* revokeApiKey of it
RacingRotations == 1..MaxRacers
RacingRevoke == MaxRacers + 1

InitRace ==
  /\ server = Listening
  /\ config = [authMode |-> "oidc", budgetEnforcement |-> "soft", databaseUrl |-> TRUE,
               defaultModel |-> DefaultModel]
  /\ apiKeys = [id \in KeyIds |-> IF id = 1 THEN AnaKey ELSE NoKey]
  /\ keySeq = 1
  /\ rot = [j \in 1..RacingRevoke |-> IdleRotation]
  /\ lastResp = Answer("none", 0, "", 0)
  /\ conn = [c \in Conns |-> ClosedConn]
  /\ tokenUsage = {}
  /\ userBudgets = [u \in UserIds |-> [exists |-> FALSE, current_usage |-> 0]]
  /\ budgetCredits = {}
  /\ ru = [k \in Calls |-> IdleCall]
  /\ lastBudget = [ok |-> FALSE, userId |-> "", role |-> DEFAULT_ROLE, currentUsage |-> 0,
                   exceeded |-> FALSE, warningThreshold |-> FALSE,
                   settled |-> FALSE, expected |-> 0]
  /\ reads = 0
  /\ faults = 0
  /\ auditLogs = {}
  /\ req = [r \in Requests |-> IdleRequest]

NextRace ==
  \/ \E j \in RacingRotations, c \in Conns : RotateStart(j, "admin", 1, c)
  \/ \E j \in RacingRotations : RotateBegin(j)
  \/ \E j \in RacingRotations : RotateSelect(j)
  \/ \E j \in RacingRotations : RotateNotFound(j)
  \/ \E j \in RacingRotations : RotateUpdate(j)
  \/ \E j \in RacingRotations, k \in RawKeys : RotateInsert(j, k)
  \/ \E j \in RacingRotations : RotateCommit(j)
  \/ \E j \in RacingRotations : RotateRollback(j)
  \/ \E j \in RacingRotations : RotateRelease(j)
  \/ \E c \in Conns : revokeApiKey(RacingRevoke, 1, c)

SpecRace == InitRace /\ [][NextRace]_vars

\* scanText on every text of the bounds
InitScan ==
  /\ InitTables
  /\ server = Listening
  /\ config = [authMode |-> "mock", budgetEnforcement |-> "soft", databaseUrl |-> TRUE,
               defaultModel |-> DefaultModel]
  /\ \E text \in Texts :
       req = [r \in Requests |->
                IF r = 1
                THEN [IdleRequest EXCEPT !.scanned = [NoScan EXCEPT !.asked = TRUE,
                                                                    !.text = text]]
                ELSE IdleRequest]

NextScan == \E r \in Requests : ScanText(r)

SpecScan == InitScan /\ [][NextScan]_vars

\* classify on every prompt and source of the bounds
InitClassify ==
  /\ InitTables
  /\ server = Listening
  /\ config = [authMode |-> "mock", budgetEnforcement |-> "soft", databaseUrl |-> TRUE,
               defaultModel |-> DefaultModel]
  /\ \E prompt \in Prompts, source \in Sources :
       req = [r \in Requests |->
                IF r = 1
                THEN [IdleRequest EXCEPT !.classification =
                        [NoClassification EXCEPT !.asked = TRUE, !.prompt = prompt,
                                                 !.source = source]]
                ELSE IdleRequest]

NextClassify == \E r \in Requests : Classify(r)

SpecClassify == InitClassify /\ [][NextClassify]_vars

\* the budget surface: any caller of the pipeline asks for the budget of ana
\* or of bo, or for the summary
NextBudget ==
  \/ \E r \in Requests, token \in PipelineTokens, hdr \in HeaderCases, target \in Users :
       ReceiveBudget(r, "budget", token, hdr, target) /\ HeadersRead(token, hdr)
  \/ \E r \in Requests, token \in PipelineTokens, hdr \in HeaderCases :
       ReceiveBudget(r, "budget_summary", token, hdr, "") /\ HeadersRead(token, hdr)
  \/ \E r \in Requests, c \in Conns : AuthStage(r, c)
  \/ \E r \in Requests : RouteStage(r)
  \/ \E r \in Requests, c \in Conns : BudgetRead(r, c)
  \/ \E r \in Requests, c \in Conns : SummaryRead(r, c)

SpecBudget == InitPipeline /\ [][NextBudget]_vars

\* ---------------------------------------------------------------- claims
CounterOf(u) == IF userBudgets[u].exists THEN userBudgets[u].current_usage ELSE 0

RECURSIVE SumRows(_)
SumRows(S) ==
  IF S = {} THEN 0
  ELSE LET x == CHOOSE y \in S : TRUE
       IN x.input_tokens + x.output_tokens + SumRows(S \ {x})

\* C3: in every committed store state the counter of a user equals the sum of
\* inputTokens + outputTokens over that user's committed token_usage rows
C3_CounterEqualsLedger ==
  \A u \in Users : CounterOf(u) = SumRows({r \in tokenUsage : r.user_id = u})

\* C4: a recordUsage call in which a statement failed leaves neither its
\* ledger row nor its counter increment in the committed store
C4_FailedCallLeavesNothing ==
  \A k \in Calls :
    ru[k].pc = "failed" =>
      /\ \A r \in tokenUsage : r.call # k
      /\ k \notin budgetCredits

\* C5: a getUserBudget issued after all recordUsage calls of the user have
\* completed successfully returns the sum of their tokens
C5_NoLostIncrement ==
  (lastBudget.ok /\ lastBudget.settled) => lastBudget.currentUsage = lastBudget.expected

\* the committed active rows of a logical identity
ActiveRowsOf(keys, userId, userEmail) ==
  {i \in KeyIds : /\ keys[i].exists
                  /\ keys[i].is_active
                  /\ keys[i].user_id = userId
                  /\ keys[i].user_email = userEmail}

\* the ids an authentication lookup of keyHash finds in the committed table
LiveRows(keys, keyHash) ==
  {i \in KeyIds : keys[i].exists /\ keys[i].is_active /\ keys[i].key_hash = keyHash}

\* C7 as stated: once a rotation has committed, the identity of the rotated
\* key owns exactly one active row
C7_ExactlyOneActiveRow ==
  [][\A j \in Rotations :
       (rot[j].pc = "commit" /\ RotateCommit(j)) =>
         Cardinality(ActiveRowsOf(apiKeys', rot[j].found.user_id,
                                  rot[j].found.user_email)) = 1]_vars

\* C7 amended: a committed rotation leaves the rotated row inactive with
\* revoked_at set, adds exactly one active row with the same userId,
\* userEmail and role under a new hash, so the identity owns as many active
\* rows as before (one if the rotated key was its only one), and the old raw
\* key finds no active row
C7_RotationReplacesTheRow ==
  [][\A j \in Rotations :
       (rot[j].pc = "commit" /\ RotateCommit(j)) =>
         LET old == rot[j].found
             id == rot[j].keyId
             new == rot[j].newId
             before == ActiveRowsOf(apiKeys, old.user_id, old.user_email)
             after == ActiveRowsOf(apiKeys', old.user_id, old.user_email)
         IN /\ apiKeys[id] = old
            /\ ~apiKeys'[id].is_active
            /\ apiKeys'[id].revoked_at > 0
            /\ ~apiKeys[new].exists
            /\ apiKeys'[new].is_active
            /\ apiKeys'[new].role = old.role
            /\ apiKeys'[new].key_hash # old.key_hash
            /\ after = (before \ {id}) \cup {new}
            /\ Cardinality(after) = Cardinality(before)
            /\ LiveRows(apiKeys', old.key_hash) = {}]_vars

\* a rotation has committed for an identity that owned only the rotated key
C7_Witness ==
  /\ lastResp.op = "rotate"
  /\ lastResp.status = 200
  /\ apiKeys[lastResp.keyId].is_active
  /\ Cardinality(ActiveRowsOf(apiKeys, apiKeys[lastResp.keyId].user_id,
                              apiKeys[lastResp.keyId].user_email)) = 1
  /\ \E i \in KeyIds : /\ apiKeys[i].exists
                       /\ ~apiKeys[i].is_active
                       /\ apiKeys[i].user_id = apiKeys[lastResp.keyId].user_id

\* C8: when a rotation fails after it marked the old row inactive, its
\* ROLLBACK leaves the committed table as it was with the old row active and
\* found by its hash, nothing of the rotation stays pending on the client,
\* and the client goes back to the pool
C8_FailedRotationRollsBack ==
  [][\A j \in Rotations :
       /\ (rot[j].pc = "rollback" /\ rot[j].marked /\ RotateRollback(j)) =>
            /\ apiKeys' = apiKeys
            /\ apiKeys'[rot[j].keyId] = rot[j].found
            /\ apiKeys'[rot[j].keyId].is_active
            /\ LiveRows(apiKeys', rot[j].found.key_hash) = {rot[j].keyId}
            /\ \A i \in KeyIds : apiKeys'[i].exists => i # rot[j].newId \/ rot[j].newId = 0
            /\ conn'[rot[j].conn] = [st |-> "busy"] @@ NoTx
       /\ (rot[j].pc = "release" /\ rot[j].result = "threw" /\ RotateRelease(j)) =>
            /\ apiKeys' = apiKeys
            /\ conn'[rot[j].conn] = [st |-> "idle"] @@ NoTx
            /\ lastResp'.status = 500
            /\ lastResp'.code = "internal_error"]_vars

\* a rotation that had marked the old row inactive has failed and answered:
\* the old row is active, the client is back in the pool
C8_Witness ==
  /\ lastResp.op = "rotate"
  /\ lastResp.status = 500
  /\ lastResp.keyId # 0
  /\ apiKeys[lastResp.keyId].is_active
  /\ keySeq > Cardinality({i \in KeyIds : apiKeys[i].exists})
  /\ \A c \in Conns : conn[c].st # "busy"

\* C9: a request presenting an API key passes authentication only if an
\* active row with the key's hash is in the table at that moment, and is
\* answered 401 invalid_api_key otherwise, whatever the auth mode; a row that
\* is inactive stays inactive and no other row ever carries its hash, so a
\* revoked or rotated-away key is rejected from then on
C9_AuthNeedsActiveRow ==
  [][/\ \A t \in ApiKeyTokens, c \in Conns :
          (lastResp'.op = "auth" /\ Authenticate(t, NoHeaders, c)) =>
            LET live == IF isValidKeyFormat(t) THEN LiveRows(apiKeys, hashKey(t.raw)) ELSE {}
            IN /\ lastResp'.status = 200 => lastResp'.keyId \in live
               /\ live = {} => lastResp'.status = 401 /\ lastResp'.code = "invalid_api_key"
               /\ live # {} => lastResp'.status = 200
     /\ \A i \in KeyIds :
          (apiKeys[i].exists /\ ~apiKeys[i].is_active) =>
            /\ apiKeys'[i] = apiKeys[i]
            /\ \A m \in KeyIds \ {i} :
                 apiKeys'[m].exists => apiKeys'[m].key_hash # apiKeys[i].key_hash]_vars

\* a raw key whose row has been revoked or rotated away was presented in mock
\* mode and answered 401 invalid_api_key
C9_Witness ==
  /\ config.authMode = "mock"
  /\ lastResp.op = "auth"
  /\ lastResp.status = 401
  /\ lastResp.code = "invalid_api_key"
  /\ lastResp.raw # 0
  /\ \E i \in KeyIds : /\ apiKeys[i].exists
                       /\ ~apiKeys[i].is_active
                       /\ apiKeys[i].key_hash = hashKey(lastResp.raw)

\* C10: an admin's revoke of an active row answers 200 and leaves the row
\* inactive with revoked_at set; a revoke of a row that is already inactive
\* answers 404 not_found and leaves the row, revoked_at included, untouched
C10_RevokeOnce ==
  [][\A id \in KeyIds :
       (/\ lastResp'.op = "revoke"
        /\ lastResp'.keyId = id
        /\ apiKeys[id].exists
        /\ \E c \in Conns : RevokeKey("admin", id, c)) =>
         IF apiKeys[id].is_active
         THEN /\ lastResp'.status = 200
              /\ ~apiKeys'[id].is_active
              /\ apiKeys'[id].revoked_at > 0
         ELSE /\ lastResp'.status = 404
              /\ lastResp'.code = "not_found"
              /\ apiKeys' = apiKeys]_vars

\* a key revoked by DELETE (no rotation has run) was revoked again and the
\* route answered 404
C10_Witness ==
  /\ lastResp.op = "revoke"
  /\ lastResp.status = 404
  /\ lastResp.keyId # 0
  /\ apiKeys[lastResp.keyId].exists
  /\ ~apiKeys[lastResp.keyId].is_active
  /\ apiKeys[lastResp.keyId].revoked_at > 0
  /\ \A j \in Rotations : rot[j].pc = "idle"

StageNames == {"auth", "scan", "budget", "route", "audit", "upstream"}

ClaimedOrder == <<"auth", "scan", "budget", "route", "audit", "upstream">>

\* the stages that have run for request r, in the order they ran
StagesRun(r) == SelectSeq(req[r].log, LAMBDA e : e \in StageNames)

\* C1: the stages that have run for a request are an initial part of
\* authentication, scan, budget enforcement, model routing, audit setup,
\* upstream invocation, each at its place, and no stage runs once one has
\* ended with an error; so the upstream is invoked only after the five others
C1_StagesInOrder ==
  \A r \in Requests :
    /\ Len(StagesRun(r)) <= Len(ClaimedOrder)
    /\ \A i \in 1..Len(StagesRun(r)) : StagesRun(r)[i] = ClaimedOrder[i]
    /\ \A i \in 1..Len(req[r].log) :
         req[r].log[i] = "error" =>
           \A k \in (i + 1)..Len(req[r].log) : req[r].log[k] \notin StageNames

\* a request went through all six stages and was answered 200
C1_Witness ==
  \E r \in Requests :
    /\ req[r].pc = "done"
    /\ req[r].status = 200
    /\ StagesRun(r) = ClaimedOrder

\* C2: in a non-streaming request a post-response write is scheduled only
\* after the response has been sent
C2_ResponseBeforeWrites ==
  \A r \in Requests :
    \A i \in 1..Len(req[r].log) :
      (~req[r].body.stream /\ req[r].log[i] \in {"usage_scheduled", "audit_scheduled"}) =>
        \E k \in 1..(i - 1) : req[r].log[k] = "response_sent"

PreUpstreamErrors ==
  {"invalid_api_key", "invalid_token", "auth_required", "sensitive_data_blocked",
   "budget_exceeded", "invalid_request"}

\* C6: a request ended by an error of a stage before the upstream call has had
\* no stage run after that error, no upstream call, no recordUsage call and so
\* no token_usage row and no counter increment, committed or pending, and no
\* audit_logs write, scheduled, pending or committed
C6_ErrorShortCircuits ==
  \A r \in Requests :
    req[r].code \in PreUpstreamErrors =>
      /\ req[r].pc = "done"
      /\ Len(req[r].log) >= 2
      /\ \A i \in 1..Len(req[r].log) :
           /\ req[r].log[i] = "error" <=> i = Len(req[r].log) - 1
           /\ req[r].log[i] = "response_sent" <=> i = Len(req[r].log)
           /\ req[r].log[i] \notin {"upstream", "usage_scheduled", "audit_scheduled"}
      /\ ru[r].pc = "idle"
      /\ \A row \in tokenUsage : row.call # r
      /\ r \notin budgetCredits
      /\ \A c \in Conns : /\ \A row \in conn[c].rows : row.call # r
                          /\ \A inc \in conn[c].incs : inc.call # r
                          /\ \A row \in conn[c].audits : row.request_id # r
      /\ req[r].auditWrite = "none"
      /\ \A row \in auditLogs : row.request_id # r

\* a request of a user over budget was refused with 429 under hard enforcement
C6_Witness ==
  \E r \in Requests :
    /\ req[r].pc = "done"
    /\ req[r].code = "budget_exceeded"
    /\ req[r].status = 429
    /\ StagesRun(r) = <<"auth", "scan", "budget">>

\* C11: every api_keys row, committed or written in an open transaction, is
\* inactive if and only if its revoked_at is set
C11_InactiveIffRevoked ==
  /\ \A id \in KeyIds :
       apiKeys[id].exists => (~apiKeys[id].is_active <=> apiKeys[id].revoked_at > 0)
  /\ \A c \in Conns : \A id \in conn[c].kdirty :
       conn[c].kover[id].exists =>
         (~conn[c].kover[id].is_active <=> conn[c].kover[id].revoked_at > 0)

\* the table holds a row revoked by DELETE, a row rotated away and the active
\* row the rotation put in its place
C11_Witness ==
  /\ lastResp.op = "rotate"
  /\ lastResp.status = 200
  /\ apiKeys[lastResp.keyId].is_active
  /\ apiKeys[lastResp.keyId].revoked_at = 0
  /\ Cardinality({id \in KeyIds : /\ apiKeys[id].exists
                                  /\ ~apiKeys[id].is_active
                                  /\ apiKeys[id].revoked_at > 0}) = 2

\* the monthly limit budgetEnforcer applies to the caller of a request
LimitOf(rec) ==
  ROLE_DEFINITIONS[IF rec.context.role \in Roles THEN rec.context.role
                   ELSE DEFAULT_ROLE].monthlyTokenBudget

\* C12: when the budget stage reads without a store error, for a caller with a userId who is no
\* admin, a counter at or above the caller's limit, then under hard enforcement
\* the request ends with 429 budget_exceeded without an upstream call, and
\* under soft enforcement it goes on to the next stage with X-Budget-Warning set
C12_ExceededHardAndSoft ==
  [][\A r \in Requests, c \in Conns :
       (/\ req[r].pc = "budget"
        /\ BudgetStage(r, c)
        /\ req[r].context.userId # ""
        /\ req[r].context.role # "admin"
        /\ config.databaseUrl
        /\ ~conn[c].aborted
        /\ faults' = faults
        /\ VisibleUsage(c, req[r].context.userId) >= LimitOf(req[r])) =>
         /\ config.budgetEnforcement = "hard" =>
              /\ req'[r].pc = "done"
              /\ req'[r].status = 429
              /\ req'[r].code = "budget_exceeded"
              /\ \A i \in 1..Len(req'[r].log) : req'[r].log[i] # "upstream"
         /\ config.budgetEnforcement = "soft" =>
              /\ req'[r].pc = "route"
              /\ req'[r].status = 0
              /\ "X-Budget-Warning" \in req'[r].headers]_vars

\* under soft enforcement a request of bo, whose counter is at the limit, was
\* answered by the upstream with the warning header on the response
C12_Witness ==
  \E r \in Requests :
    /\ config.budgetEnforcement = "soft"
    /\ req[r].context.userId = "bo"
    /\ req[r].context.role = "business"
    /\ CounterOf("bo") >= ROLE_DEFINITIONS["business"].monthlyTokenBudget
    /\ req[r].pc = "done"
    /\ req[r].status = 200
    /\ "X-Budget-Warning" \in req[r].headers
    /\ StagesRun(r) = ClaimedOrder

\* C13: a budget stage step for a caller without userId, for an admin, under
\* enforcement none or without a store passes the request on, and so does a
\* step whose counter read fails with a store error; none of them rejects
C13_BudgetSkipsAndFailsOpen ==
  [][\A r \in Requests, c \in Conns :
       (/\ req[r].pc = "budget"
        /\ BudgetStage(r, c)
        /\ \/ req[r].context.userId = ""
           \/ req[r].context.role = "admin"
           \/ config.budgetEnforcement = "none"
           \/ ~config.databaseUrl
           \/ conn[c].aborted
           \/ faults' # faults) =>
         /\ req'[r].pc = "route"
         /\ req'[r].status = 0
         /\ req'[r].code = ""
         /\ \A i \in 1..Len(req'[r].log) : req'[r].log[i] # "error"]_vars

\* under hard enforcement the counter read of bo, who is at the limit, failed
\* with a store error and the request went on to be answered by the upstream
C13_Witness ==
  \E r \in Requests :
    /\ config.budgetEnforcement = "hard"
    /\ req[r].context.userId = "bo"
    /\ req[r].context.role = "business"
    /\ \E i \in 1..Len(req[r].log) : req[r].log[i] = "budget_check_failed"
    /\ req[r].pc = "done"
    /\ req[r].status = 200
    /\ StagesRun(r) = ClaimedOrder

\* C14: a request whose scan has run and found something of high severity
\* has ended with 400 sensitive_data_blocked, one alert (of severity high)
\* handed to the publisher and no stage after the scan, so no upstream call,
\* whatever the caller's role and counter
C14_HighSeverityBlocks ==
  \A r \in Requests :
    ("high" \in req[r].body.scan /\ \E i \in 1..Len(req[r].log) : req[r].log[i] = "scan") =>
      /\ req[r].pc = "done"
      /\ req[r].status = 400
      /\ req[r].code = "sensitive_data_blocked"
      /\ req[r].alerts = <<[severity |-> "high"]>>
      /\ StagesRun(r) = <<"auth", "scan">>
      /\ req[r].log = <<"auth", "scan", "error", "response_sent">>

\* an admin's request with a high-severity finding was blocked
C14_Witness ==
  \E r \in Requests :
    /\ req[r].context.role = "admin"
    /\ "high" \in req[r].body.scan
    /\ req[r].status = 400
    /\ req[r].code = "sensitive_data_blocked"
    /\ Len(req[r].alerts) = 1

\* C15: a request whose scan has run and found medium-severity findings only
\* was not blocked by the scan: it carries X-Sensitive-Data-Warning, one alert
\* (of severity medium) was handed to the publisher, and the budget stage is
\* the next to run or has run
C15_MediumSeverityWarns ==
  \A r \in Requests :
    (req[r].body.scan = {"medium"} /\ \E i \in 1..Len(req[r].log) : req[r].log[i] = "scan") =>
      /\ req[r].code # "sensitive_data_blocked"
      /\ "X-Sensitive-Data-Warning" \in req[r].headers
      /\ req[r].alerts = <<[severity |-> "medium"]>>
      /\ \/ req[r].pc = "budget" /\ StagesRun(r) = <<"auth", "scan">>
         \/ /\ Len(StagesRun(r)) >= 3
            /\ StagesRun(r)[3] = "budget"

\* a request with medium-severity findings only was answered by the upstream
\* with the warning header on the response
C15_Witness ==
  \E r \in Requests :
    /\ req[r].body.scan = {"medium"}
    /\ req[r].pc = "done"
    /\ req[r].status = 200
    /\ "X-Sensitive-Data-Warning" \in req[r].headers
    /\ Len(req[r].alerts) = 1
    /\ StagesRun(r) = ClaimedOrder

C17_UpstreamGetsRoutedModel ==
  \A r \in Requests :
    /\ (\E i \in 1..Len(req[r].log) : req[r].log[i] = "upstream") =>
         /\ req[r].routed.done
         /\ req[r].upstreamModel = req[r].routed.resolvedModel
         /\ req[r].routed.downgraded => req[r].upstreamModel # req[r].routed.requestedModel
    /\ (\E i \in 1..Len(req[r].log) : req[r].log[i] = "response_sent") =>
         ("X-Model-Downgraded" \in req[r].headers
            <=> (req[r].routed.done /\ req[r].routed.downgraded))

\* a business caller asked for Opus, the upstream was called with Sonnet and
\* the response, 200, carries the header
C17_Witness ==
  \E r \in Requests :
    /\ req[r].context.role = "business"
    /\ req[r].routed.requestedModel = OPUS
    /\ req[r].upstreamModel = SONNET
    /\ req[r].pc = "done"
    /\ req[r].status = 200
    /\ "X-Model-Downgraded" \in req[r].headers

\* C18: in oidc mode the auth middleware answers a request without a bearer
\* token, or with one that starts with neither prefix, 401 auth_required; one
\* with an eyJ token that does not verify, 401 invalid_token; one with a
\* dynamo-sk- token that is malformed, or whose lookup finds no active row,
\* 401 invalid_api_key; and a request it rejects has no role, auth method or
\* key id in its context and runs no later stage
C18_TokenModeRejections ==
  [][\A r \in Requests, c \in Conns :
       (req[r].pc = "auth" /\ AuthStage(r, c) /\ config.authMode = "oidc") =>
         LET t == req[r].token
             after == req'[r]
             answered(code) == after.status = 401 /\ after.code = code
         IN /\ t.kind \in {"none", "other"} => answered("auth_required")
            /\ (t.kind = "jwt" /\ ~t.valid) => answered("invalid_token")
            /\ (t.kind = "api_key" /\ ~t.wellFormed) => answered("invalid_api_key")
            /\ (/\ t.kind = "api_key"
                /\ t.wellFormed
                /\ ~conn[c].aborted
                /\ LiveRows(apiKeys, hashKey(t.raw)) = {}) => answered("invalid_api_key")
            /\ after.status # 0 =>
                 /\ after.pc = "done"
                 /\ after.context.role = ""
                 /\ after.context.authMethod = "none"
                 /\ after.context.apiKeyId = 0
                 /\ after.log = <<"auth", "error", "response_sent">>]_vars

\* in oidc mode a request with an eyJ token that does not verify was answered
\* 401 invalid_token
C18_Witness ==
  \E r \in Requests :
    /\ config.authMode = "oidc"
    /\ req[r].token.kind = "jwt"
    /\ req[r].pc = "done"
    /\ req[r].status = 401
    /\ req[r].code = "invalid_token"
    /\ req[r].context.authMethod = "none"

\* the role the claim gives a verified token
ClaimedJwtRole(token) ==
  IF token.groups # {}
  THEN IF "AI-Platform-Admins" \in token.groups THEN "admin"
       ELSE IF "AI-Platform-Engineers" \in token.groups THEN "engineer"
       ELSE IF "AI-Platform-Power" \in token.groups THEN "power_user"
       ELSE IF "AI-Platform-Business" \in token.groups THEN "business"
       ELSE DEFAULT_ROLE
  ELSE IF token.role # "" THEN token.role ELSE DEFAULT_ROLE

\* C19: a request with a verified bearer token passes auth with the role of
\* the highest-priority recognized group of its groups (the default role when
\* none is recognized) whatever its role claim, and with its role claim (the
\* default role when it has none) when it has no groups
C19_JwtRoleResolution ==
  [][\A r \in Requests, c \in Conns :
       (/\ req[r].pc = "auth"
        /\ AuthStage(r, c)
        /\ config.authMode = "oidc"
        /\ req[r].token.kind = "jwt"
        /\ req[r].token.valid) =>
         /\ req'[r].pc = "scan"
         /\ req'[r].context.authMethod = "jwt"
         /\ req'[r].context.role = ClaimedJwtRole(req[r].token)]_vars

\* a token of the Business and Power groups and of a group that is not
\* recognized, with role claim admin, was given role power_user
C19_Witness ==
  \E r \in Requests :
    /\ req[r].pc = "scan"
    /\ req[r].context.authMethod = "jwt"
    /\ req[r].context.role = "power_user"

\* C20: once the loop of a streaming handler has seen that the client is
\* gone, the upstream subscription is aborted and the client stream of that
\* request holds no frame (content chunk, final chunk or terminal frame)
\* written after that
C20_NoFrameAfterDisconnectObserved ==
  \A r \in Requests :
    req[r].sse.observedAt >= 0 =>
      /\ req[r].sse.aborted
      /\ Len(req[r].sse.frames) = req[r].sse.observedAt

\* the positions of the events of a type in a script
PositionsOf(script, type) == {i \in DOMAIN script : script[i].type = type}

LastOf(S) == CHOOSE i \in S : \A j \in S : j <= i

\* the token count the last event of a type reports, 0 when there is none
LastReported(script, type) ==
  IF PositionsOf(script, type) = {} THEN 0
  ELSE script[LastOf(PositionsOf(script, type))].tokens

\* what the claim says the usage record and the audit entry of a stream carry
ClaimedStreamRecord(rec) ==
  Recorded(IF rec.sse.script[1].model # "" THEN rec.sse.script[1].model
           ELSE rec.upstreamModel,
           LastReported(rec.sse.script, "message_start"),
           LastReported(rec.sse.script, "message_delta"))

\* C21: the usage record and the audit entry of a streaming request that ran
\* to the end of the upstream stream carry the input tokens of message_start,
\* the output tokens of the last message_delta and the model of message_start
\* when it names one (the requested model otherwise), and a handler that did
\* not break out of its loop makes them only once every event is processed
C21_StreamRecordsFinalCounts ==
  \A r \in Requests :
    LET rec == req[r] IN
    /\ (rec.body.stream /\ rec.pc = "done" /\ rec.code = "" /\ ~rec.sse.aborted) =>
          /\ rec.usageParams = IF rec.context.userId # "" THEN ClaimedStreamRecord(rec)
                               ELSE NoRecord
          /\ rec.auditEntry = IF rec.audit THEN ClaimedStreamRecord(rec) ELSE NoRecord
    /\ (rec.body.stream /\ ~rec.sse.aborted
          /\ (rec.usageParams.made \/ rec.auditEntry.made)) =>
          rec.sse.next > Len(rec.sse.script)

\* a chat stream whose message_start named another model than the requested
\* one and which had two message_delta events with different counts ran to
\* its end, and usage and audit were recorded
C21_Witness ==
  \E r \in Requests :
    LET rec == req[r] IN
    /\ rec.pc = "done"
    /\ rec.surface = "chat"
    /\ ~rec.sse.aborted
    /\ rec.usageParams.made
    /\ rec.auditEntry.made
    /\ rec.usageParams.model = HAIKU
    /\ rec.usageParams.model # rec.upstreamModel
    /\ rec.usageParams.inputTokens = 2
    /\ Len(rec.sse.script) = 3
    /\ rec.sse.script[2].type = "message_delta"
    /\ rec.sse.script[3].type = "message_delta"
    /\ rec.sse.script[2].tokens = 2
    /\ rec.sse.script[3].tokens = 1
    /\ rec.usageParams.outputTokens = 1

\* the events of a script the claim gives a frame
FramedEvents(script) ==
  SelectSeq(script, LAMBDA e : \/ e.type = "content_block_delta" /\ e.text
                               \/ e.type = "message_delta")

\* the frame the claim gives such an event
ClaimedFrame(e) ==
  IF e.type = "content_block_delta" THEN "content"
  ELSE IF e.stop_reason \in {"end_turn", "stop_sequence"} THEN "finish_reason:stop"
  ELSE IF e.stop_reason = "max_tokens" THEN "finish_reason:length"
  ELSE "finish_reason:null"

ClaimedChatFrames(script) ==
  <<"role">> \o [i \in 1..Len(FramedEvents(script)) |-> ClaimedFrame(FramedEvents(script)[i])]
             \o <<"[DONE]">>

\* C22: the frames of a chat stream that ran to the end of the upstream
\* stream are the initial chunk with the role, one content chunk for each
\* text delta and one chunk with the mapped finish_reason for each
\* message_delta, in the order of the upstream events, and data: [DONE] last
C22_ChatFrameOrder ==
  \A r \in Requests :
    LET rec == req[r] IN
    (/\ rec.surface = "chat"
     /\ rec.body.stream
     /\ rec.pc = "done"
     /\ rec.code = ""
     /\ ~rec.sse.aborted) => rec.sse.frames = ClaimedChatFrames(rec.sse.script)

\* a chat stream with two text deltas and a message_delta with stop reason
\* max_tokens ran to its end
C22_Witness ==
  \E r \in Requests :
    /\ req[r].surface = "chat"
    /\ req[r].pc = "done"
    /\ ~req[r].sse.aborted
    /\ req[r].sse.frames = <<"role", "content", "content", "finish_reason:length", "[DONE]">>

\* the place of a step in the log of a request, 0 when it is not there
PlaceOf(rec, step) ==
  IF \E i \in 1..Len(rec.log) : rec.log[i] = step
  THEN CHOOSE i \in 1..Len(rec.log) : rec.log[i] = step
  ELSE 0

\* C23: in a streaming request recordUsage and commitAuditLog are started
\* only once the loop over the upstream stream is left, the terminal frame is
\* written and the response is ended, and the request is over at that moment,
\* whatever the state of the two writes
C23_StreamWritesAfterEnd ==
  \A r \in Requests :
    LET rec == req[r] IN
    (/\ rec.body.stream
     /\ \/ rec.usageParams.made
        \/ rec.auditEntry.made
        \/ ru[r].pc # "idle"
        \/ rec.auditWrite # "none") =>
      /\ rec.pc = "done"
      /\ rec.sse.aborted \/ rec.sse.next > Len(rec.sse.script)
      /\ rec.surface = "chat" => rec.sse.frames[Len(rec.sse.frames)] = "[DONE]"
      /\ PlaceOf(rec, "response_sent") > 0
      /\ \A step \in {"usage_scheduled", "audit_scheduled"} :
           PlaceOf(rec, step) > 0 => PlaceOf(rec, "response_sent") < PlaceOf(rec, step)

\* a chat stream has ended with [DONE] while its recordUsage call has not
\* begun its transaction and its audit row is not written
C23_Witness ==
  \E r \in Requests :
    /\ req[r].body.stream
    /\ req[r].surface = "chat"
    /\ req[r].pc = "done"
    /\ req[r].status = 200
    /\ req[r].code = ""
    /\ ~req[r].sse.aborted
    /\ ru[r].pc = "begin"
    /\ req[r].auditWrite = "scheduled"
    /\ auditLogs = {}

\* what the client of a request has received
ResponseOf(rec) == <<rec.status, rec.code, rec.headers, rec.sse.frames, rec.log>>

\* one of the writes of request r has failed
WriteFailedOf(r) ==
  \/ req[r].bg.touch = "failed"
  \/ req[r].bg.upsert = "failed"
  \/ req[r].bg.publish = "failed"
  \/ ru[r].pc \in {"rollback", "failed"}
  \/ req[r].auditWrite = "done" /\ auditLogs = {}

\* C24: a step of recordUsage, commitAuditLog, publishAlert, the last_used_at
\* update or the profile upsert of a request, failing or not, leaves what the
\* client of that request has received and the place of the request in the
\* pipeline as they are, and a request one of whose writes has failed is not
\* ended with an error
C24_WriteFailuresStayHidden ==
  [][\A r \in Requests :
       /\ WriteStep(r) =>
            /\ ResponseOf(req'[r]) = ResponseOf(req[r])
            /\ req'[r].pc = req[r].pc
       /\ (req'[r].pc # req[r].pc /\ WriteFailedOf(r)) =>
            req'[r].code = "" /\ req'[r].status \in {0, 200}]_vars

\* a request was answered 200 after its alert publication and its
\* last_used_at update had failed, and its recordUsage call failed too
C24_Witness ==
  \E r \in Requests :
    /\ req[r].pc = "done"
    /\ req[r].status = 200
    /\ req[r].code = ""
    /\ req[r].bg.publish = "failed"
    /\ req[r].bg.touch = "failed"
    /\ ru[r].pc = "failed"

\* C25: without a store no operation fails for want of it: a key lookup
\* finds nothing (401 invalid_api_key), and creating, listing, revoking or
\* rotating a key is not answered with a server error
C25_NoStoreNeverFails ==
  ~config.databaseUrl => lastResp.status < 500

\* C26: a request that ended with upstream_auth_error, rate_limited or
\* api_overloaded was answered 502, one that ended with upstream_error was
\* answered 502 or a status below 500, and one that ended with internal_error
\* was answered 500 (requests whose headers were not yet sent)
C26_UpstreamErrorStatus ==
  \A r \in Requests :
    (req[r].pc = "done" /\ ~req[r].sse.flushed) =>
      /\ req[r].code \in {"upstream_auth_error", "rate_limited", "api_overloaded"} =>
           req[r].status = 502
      /\ req[r].code = "upstream_error" => req[r].status = 502 \/ req[r].status < 500
      /\ req[r].code = "internal_error" => req[r].status = 500

\* C27: a caller whose role is not admin is shown no budget but their own:
\* GET /v1/budget/:userId for another user and GET /v1/budget/admin/summary
\* are answered 403 forbidden
C27_BudgetSelfOrAdmin ==
  \A r \in Requests :
    LET rec == req[r] IN
    (rec.surface \in BudgetSurfaces /\ rec.context.role # "admin") =>
      /\ rec.disclosed \subseteq {rec.context.userId}
      /\ (/\ rec.pc = "done"
          /\ PlaceOf(rec, "route") > 0
          /\ rec.surface = "budget_summary" \/ rec.target # rec.context.userId) =>
           rec.status = 403 /\ rec.code = "forbidden" /\ rec.disclosed = {}

\* bo, whose role is business, asked for the budget of ana and was answered
\* 403 forbidden
C27_Witness ==
  \E r \in Requests :
    /\ req[r].surface = "budget"
    /\ req[r].pc = "done"
    /\ req[r].context.userId = "bo"
    /\ req[r].context.role = "business"
    /\ req[r].target = "ana"
    /\ req[r].status = 403
    /\ req[r].code = "forbidden"
    /\ PlaceOf(req[r], "budget_read") > 0

\* the handler answered 403 forbidden and wrote nothing to api_keys, on the
\* table or in any open transaction
RefusedUntouched(op) ==
  /\ lastResp' = Answer(op, 403, "forbidden", 0)
  /\ apiKeys' = apiKeys
  /\ keySeq' = keySeq
  /\ conn' = conn
  /\ rot' = rot

C29_EvaluateBudgetThresholds ==
  lastBudget.returned =>
    LET used == lastBudget.currentUsage
        limit == lastBudget.monthlyLimit
    IN
    IF limit > 0
    THEN /\ lastBudget.warningThreshold <=> (5 * used >= 4 * limit)
         /\ lastBudget.exceeded <=> (used >= limit)
         /\ lastBudget.exceeded => lastBudget.warningThreshold
         /\ \A less \in 0..used :
              /\ evaluateBudget(less, limit).warningThreshold => lastBudget.warningThreshold
              /\ evaluateBudget(less, limit).exceeded => lastBudget.exceeded
    ELSE /\ ~lastBudget.warningThreshold
         /\ ~lastBudget.exceeded
         /\ lastBudget.percentUsed = 0

\* usage at exactly four fifths of a limit: the warning without exceeded
C29_Witness ==
  /\ lastBudget.returned
  /\ lastBudget.monthlyLimit > 0
  /\ 5 * lastBudget.currentUsage = 4 * lastBudget.monthlyLimit
  /\ lastBudget.warningThreshold
  /\ ~lastBudget.exceeded

\* the largest of the scores
TopScore(scores) ==
  CHOOSE t \in {scores[i] : i \in DOMAIN scores} : \A i \in DOMAIN scores : scores[i] <= t

\* the first category, in the order of Categories, that has the largest score
ClaimedWinner(scores) ==
  CHOOSE i \in DOMAIN scores :
    /\ scores[i] = TopScore(scores)
    /\ \A j \in DOMAIN scores : scores[j] = TopScore(scores) => i <= j

\* C30: with the scores of the categories, code_generation raised by 4 for
\* source cli, classify returns general_qa with confidence 1 when the largest
\* score is 0 and otherwise the category with the largest score, the first in
\* the order of the categories on a tie, with a secondary exactly when another
\* category has a score above 0
C30_ClassifyFollowsScores ==
  \A r \in Requests :
    req[r].classification.returned =>
      LET scores == Biased(req[r].classification.prompt.scores, req[r].classification.source)
          result == req[r].classification.result
      IN IF TopScore(scores) = 0
         THEN result.category = "general_qa" /\ result.confidence = 100
         ELSE /\ result.category = Categories[ClaimedWinner(scores)]
              /\ (result.secondary # NoSecondary) <=>
                   (\E j \in DOMAIN scores : j # ClaimedWinner(scores) /\ scores[j] > 0)

\* C31: no finding of severity medium that scanText returns overlaps the range
\* of a finding of severity high of the same scan, and every finding's range
\* lies within the text
C31_MediumNeverOverlapsHigh ==
  \A r \in Requests :
    req[r].scanned.returned =>
      LET findings == req[r].scanned.result.findings IN
      /\ \A k \in 1..Len(findings) :
           0 <= findings[k].index /\ findings[k].end <= req[r].scanned.text.length
      /\ \A m, h \in 1..Len(findings) :
           (findings[m].severity = "medium" /\ findings[h].severity = "high") =>
             ~(findings[m].index < findings[h].end /\ findings[m].end > findings[h].index)

\* a text in which a connection string lies over a database password: the
\* scan returned the password alone
C31_Witness ==
  \E r \in Requests :
    /\ req[r].scanned.returned
    /\ \E a, b \in req[r].scanned.text.matches :
         /\ a.type = "db_password"
         /\ b.type = "connection_string"
         /\ a.index < b.index + b.length
         /\ b.index < a.index + a.length
    /\ Len(req[r].scanned.result.findings) = 1
    /\ req[r].scanned.result.findings[1].type = "db_password"

\* the message for a set of types: the labels of the types, in the order of
\* HIGH_PATTERNS, between the two fixed sentences
MessageOfTypes(types) ==
  <<"Request blocked: sensitive data detected. Found: ">>
    \o [k \in 1..Len(SelectSeq(HIGH_PATTERNS, LAMBDA t : t \in types)) |->
          TYPE_LABELS[SelectSeq(HIGH_PATTERNS, LAMBDA t : t \in types)[k]]]
    \o <<". Please remove sensitive data before retrying.">>

\* C32: the message of a sensitive-data block is a function of the set of the
\* types of its findings of severity high: blocks with the same types and
\* other matched values carry the same message, and no part of a value is in it
C32_BlockMessageNamesTypesOnly ==
  \A r \in Requests :
    (req[r].scanned.returned /\ req[r].scanned.result.hasHighSeverity) =>
      LET findings == req[r].scanned.result.findings
          types == {findings[k].type : k \in {j \in 1..Len(findings) :
                                                findings[j].severity = "high"}}
      IN req[r].scanned.message = MessageOfTypes(types)

\* a block on two access keys with different values
C32_Witness ==
  \E r \in Requests :
    /\ req[r].scanned.returned
    /\ req[r].scanned.result.hasHighSeverity
    /\ \E a, b \in req[r].scanned.text.matches :
         a.type = "aws_access_key" /\ b.type = "aws_access_key" /\ a.value # b.value
    /\ req[r].scanned.message = MessageOfTypes({"aws_access_key"})

\* the rows the rotations have committed
NewKeyRows == {id \in KeyIds : id # 1 /\ apiKeys[id].exists}

\* every rotation has returned
RotationsReturned == \A j \in RacingRotations : rot[j].pc \in {"release", "done"}

\* no statement of a rotation has failed: no store fault, and no INSERT that
\* used up an id without a row
NoRotationThrew == faults = 0 /\ keySeq = 1 + Cardinality(NewKeyRows)

\* C33: of the rotations racing on one active key at most one returns a new
\* key, the others return null once the key is inactive, and one new row is
\* created: exactly one when no call has failed and no revoke came first
C33_RacingRotationsSerialize ==
  /\ Cardinality(NewKeyRows) <= 1
  /\ \A j \in RacingRotations :
       /\ (rot[j].pc = "release" /\ rot[j].result = "key") =>
            /\ NewKeyRows = {rot[j].newId}
            /\ apiKeys[rot[j].newId].is_active
            /\ ~apiKeys[1].is_active
            /\ \A i \in RacingRotations \ {j} :
                 ~(rot[i].pc = "release" /\ rot[i].result = "key")
       /\ (rot[j].pc = "release" /\ rot[j].result = "null") => ~apiKeys[1].is_active
  /\ (RotationsReturned /\ NoRotationThrew /\ rot[RacingRevoke].result # "true") =>
       Cardinality(NewKeyRows) = 1

\* two rotations of key 1 were in flight together; one has returned its new
\* key and the other null
C33_Witness ==
  /\ rot[1].pc = "release"
  /\ rot[1].result = "null"
  /\ lastResp.op = "rotate"
  /\ lastResp.status = 200
  /\ Cardinality(NewKeyRows) = 1
  /\ rot[RacingRevoke].pc = "idle"

\* C39: a revokeApiKey and a rotateApiKey racing on one active key never both
\* succeed: when the revoke returned true no rotation of the key creates or
\* returns a key, and the revoke returns false only after a rotation has
\* committed its new key
C39_RevokeAndRotateExclude ==
  /\ rot[RacingRevoke].result = "true" =>
       /\ NewKeyRows = {}
       /\ \A j \in RacingRotations : ~(rot[j].pc = "release" /\ rot[j].result = "key")
  /\ rot[RacingRevoke].result = "false" =>
       /\ Cardinality(NewKeyRows) = 1
       /\ ~apiKeys[1].is_active

\* the revoke won: it returned true, and a rotation that was waiting for the
\* row returned null
C39_Witness ==
  /\ rot[RacingRevoke].result = "true"
  /\ \E j \in RacingRotations : rot[j].pc = "release" /\ rot[j].result = "null"
  /\ NewKeyRows = {}

\* C34: after a signal no request is received any more, and closePool runs
\* only with no request in flight: whenever the pool has been closed the
\* listener is closed and every request has been answered
C34_PoolClosedAfterDrain ==
  /\ [](server.poolClosed =>
         /\ ~server.accepting
         /\ \A r \in Requests : ~InFlight(r))
  /\ [][\A r \in Requests :
         (~server.accepting /\ req[r].pc = "idle") => req'[r].pc = "idle"]_vars

\* a signal came while a request was in flight; it was answered, and then the
\* pool was closed and the process exited with 0
C34_Witness ==
  /\ server.exited = "0"
  /\ server.poolClosed
  /\ req[1].pc = "done"
  /\ req[1].status = 200

\* what the credential alone says of the caller: the claims of the verified
\* token, or the row of the key
CredentialOf(token) ==
  IF token.kind = "jwt" THEN authenticateJwt(token)
  ELSE LET id == CHOOSE i \in KeyIds : apiKeys[i].exists /\ apiKeys[i].key_hash = hashKey(token.raw)
       IN Accepted(apiKeys[id].user_id, apiKeys[id].user_email, apiKeys[id].role, "api_key", id)

\* C35: in token mode a request that has passed auth carries the userId,
\* userEmail and role of its credential whatever its identity headers say, its
\* model is resolved for that role, the budget routes answer it as they answer
\* that user and role, and its usage and audit rows are written for that user
C35_IdentityFromCredentialOnly ==
  /\ \A r \in Requests :
       LET rec == req[r] IN
       rec.context.authMethod # "none" =>
         LET cred == CredentialOf(rec.token)
             routed == resolveModel(rec.routed.requestedModel, cred.role)
         IN
         /\ rec.context.userId = cred.userId
         /\ rec.context.userEmail = cred.userEmail
         /\ rec.context.role = IF rec.routed.done THEN routed.role ELSE cred.role
         /\ rec.routed.done =>
              /\ rec.routed.resolvedModel = routed.resolvedModel
              /\ rec.routed.downgraded = routed.downgraded
         /\ (rec.surface = "budget" /\ rec.status \in {200, 403}) =>
              (rec.status = 200 <=> (routed.role = "admin" \/ cred.userId = rec.target))
         /\ (rec.surface = "budget_summary" /\ rec.status \in {200, 403}) =>
              (rec.status = 200 <=> routed.role = "admin")
         /\ ru[r].pc # "idle" => ru[r].userId = cred.userId
         /\ \A row \in auditLogs : row.request_id = r => row.user_id = cred.userId
  /\ \A u \in UserIds :
       userBudgets[u].exists =>
         \E r \in Requests : req[r].pc # "idle" /\ CredentialOf(req[r].token).userId = u

\* a request with the key of ana (an engineer) and the headers of an admin is
\* refused the summary, and one with the headers of bo is charged to ana
C35_Witness ==
  \/ /\ req[1].token.kind = "api_key"
     /\ req[1].hdr.xUserRole = "admin"
     /\ req[1].surface = "budget_summary"
     /\ req[1].status = 403
  \/ /\ req[1].hdr.xUserId = "bo"
     /\ req[1].surface = "chat"
     /\ userBudgets["ana"].exists

\* the number of times the end of a response was written for the request
Sent(rec) == Cardinality({i \in 1..Len(rec.log) : rec.log[i] = "response_sent"})

Count(rec, step) == Cardinality({i \in 1..Len(rec.log) : rec.log[i] = step})

\* the upstream call of the request returned its result, or its stream was
\* read to the end
Complete(rec) ==
  /\ rec.pc = "done"
  /\ Count(rec, "upstream") = 1
  /\ Count(rec, "error") = 0
  /\ ~rec.sse.aborted

\* C37: no request has commitAuditLog or recordUsage called for it more than
\* once; a request whose upstream response was complete has commitAuditLog
\* called once, with an entry of status success, and, when its caller has a
\* userId, recordUsage called once for that user
C37_OneAuditOneUsage ==
  /\ [](\A r \in Requests :
         /\ Count(req[r], "audit_scheduled") <= 1
         /\ Count(req[r], "usage_scheduled") <= 1
         /\ Cardinality({row \in auditLogs : row.request_id = r}) <= 1
         /\ \A row \in auditLogs : row.request_id = r => row.status = "success"
         /\ Complete(req[r]) =>
              /\ Count(req[r], "audit_scheduled") = 1
              /\ req[r].auditWrite \in {"scheduled", "done"}
              /\ req[r].auditEntry # NoRecord
              /\ req[r].context.userId # "" =>
                   /\ Count(req[r], "usage_scheduled") = 1
                   /\ req[r].usageParams # NoRecord
                   /\ ru[r].pc # "idle"
                   /\ ru[r].userId = req[r].context.userId)
  /\ [][\A r \in Requests :
         /\ req[r].auditWrite = "done" => req'[r].auditWrite = "done"
         /\ ru[r].pc # "idle" => ru'[r].pc # "idle" /\ ru'[r].userId = ru[r].userId]_vars

\* a stream read to its end: the audit row is committed and the usage call
\* has finished
C37_Witness ==
  /\ Complete(req[1])
  /\ req[1].body.stream
  /\ req[1].auditWrite = "done"
  /\ \E row \in auditLogs : row.request_id = 1
  /\ ru[1].pc = "done"

\* the committed counter of the caller has reached the caller's limit
AtLimit(rec) ==
  /\ rec.context.userId \in UserIds
  /\ CounterOf(rec.context.userId) >= LimitOf(rec)

\* C38: under hard enforcement no handler calls the upstream for a caller who
\* is no admin while the committed counter of that caller is at or above the
\* limit
C38_NoUpstreamCallAtLimit ==
  [][\A r \in DOMAIN req :
       (/\ config.budgetEnforcement = "hard"
        /\ req[r].pc = "handler"
        /\ req'[r].pc = "upstream"
        /\ req[r].context.role # "admin")
       => ~AtLimit(req[r])]_vars

\* what getUserBudget and budgetEnforcer compute for the caller of rec from
\* the committed counter
BudgetStatusOfCaller(rec) ==
  LET role == IF rec.context.role = "" THEN DEFAULT_ROLE ELSE rec.context.role
      monthlyLimit == getMonthlyBudget(role)
      ev == evaluateBudget(CounterOf(rec.context.userId), monthlyLimit)
  IN [monthlyLimit |-> monthlyLimit, exceeded |-> ev.exceeded,
      warningThreshold |-> ev.warningThreshold]

\* C40: for every caller the budget enforcer is about to check who has a
\* counter row, the monthlyLimit, exceeded and warning values of that user's
\* row in the admin summary (getAllBudgets) equal those getUserBudget and the
\* enforcer compute for the user with their role
C40_SummaryAgreesWithEnforcer ==
  \A r \in DOMAIN req :
    (/\ req[r].pc = "budget"
     /\ req[r].context.userId \in UserIds
     /\ req[r].context.userId \in AllBudgets)
    => \A row \in getAllBudgets :
         row.userId = req[r].context.userId =>
           /\ row.monthlyLimit = BudgetStatusOfCaller(req[r]).monthlyLimit
           /\ row.exceeded = BudgetStatusOfCaller(req[r]).exceeded
           /\ row.warningThreshold = BudgetStatusOfCaller(req[r]).warningThreshold

====
